---- MODULE Spec2Model ----
(***************************************************************************)
(* A model of the WWT core catalog tools: the record databases of          *)
(* cattool.py (ImagesetDatabase, PlaceDatabase, ConstellationsPrepDatabase) *)
(* and the ingest pipeline of corepipe/base.py (PipelineManager).           *)
(*                                                                         *)
(* URLs are modelled as the integers 1..MaxUrl, ordered as the strings     *)
(* they stand for; 0 stands for an absent URL (None or "").                *)
(***************************************************************************)
EXTENDS Integers, Sequences, FiniteSets, TLC

\* ------------------------------------------------------------------ bounds
MaxUrl == 3
\* the one url that records may declare as their alt_url
AliasUrl == 2
\* how many times a running process is killed
MaxKills == 1
\* the items of the pipeline's working directory
NItems == 2
\* remote registrations counted per item (no more are accepted)
MaxRegs == 2
\* process runs are counted up to this many
MaxRuns == 3
\* the places one ingest run adds
MaxPlaces == 2

\* range(5) of _retry
RetryLimit == 5
\* time.sleep(0.5) of _retry, in tenths of a second
RetryDelay == 5
\* textwrap.wrap(..., width=80) of _emit_record
WrapWidth == 80
\* the words of a field value, and the lines of a hand-written ledger file
MaxWords == 3
MaxLines == 3

Urls == 1..MaxUrl

\* ------------------------------------------------------- generic helpers
RECURSIVE Perms(_)
\* every order in which the members of S can be listed (glob / listdir order)
Perms(S) ==
  IF S = {} THEN {<<>>}
  ELSE UNION {{<<x>> \o p : p \in Perms(S \ {x})} : x \in S}

RECURSIVE JoinUnderscore(_)
\* "_".join(k)
JoinUnderscore(k) ==
  IF Len(k) = 0 THEN ""
  ELSE IF Len(k) = 1 THEN k[1]
  ELSE k[1] \o "_" \o JoinUnderscore(Tail(k))

\* str.lower() on the vocabulary of enum values the records carry
Lower(tok) ==
  CASE tok = "Sky" -> "sky"
    [] tok = "Planet" -> "planet"
    [] tok = "Mars" -> "mars"
    [] tok = "Visible" -> "visible"
    [] OTHER -> tok

\* ("_".join(k)).lower(): "_" has no case, so lowering distributes over the join
JoinLower(k) == JoinUnderscore([i \in 1..Len(k) |-> Lower(k[i])])

\* ------------------------------------------------------------ image sets
\* The attributes an ImageSet of url u carries (inputs: two urls share the
\* shard sky_visible, one of them with the default frame, the third is a
\* planetary set without band pass).
DataSetTypeOf(u) == IF u % 3 = 0 THEN "Planet" ELSE "Sky"
ReferenceFrameOf(u) == IF u % 3 = 0 THEN "Mars" ELSE IF u % 3 = 2 THEN "Sky" ELSE "None"
BandPassOf(u) == IF u % 3 = 0 THEN "None" ELSE "Visible"

\* xmeta.cxstatus: absent, queue:<handle>, skip, in:<id>
\* xmeta.corepipe_ids: the pipeline item of the record, 0 when it has none
NoStatus == [tag |-> "absent", val |-> 0]

MkImageSet(u, a) ==
  [url |-> u, alt_url |-> a, data_set_type |-> DataSetTypeOf(u),
   reference_frame |-> ReferenceFrameOf(u), band_pass |-> BandPassOf(u),
   cxstatus |-> NoStatus, corepipe_ids |-> 0]

\* the ImageSets a caller can hand to add_imageset
ImageSets == {MkImageSet(p[1], p[2]) : p \in {q \in Urls \X {0, AliasUrl} : q[1] # q[2]}}

HasUrl(by_url_, u) == \E r \in by_url_ : r.url = u

\* ImagesetDatabase.get_by_url / self.by_url[url]
GetByUrl(by_url_, u) == CHOOSE r \in by_url_ : r.url = u

\* self.by_alturl.get(u): the main url claiming alias u, 0 (None) if none
AltGet(by_alturl_, u) ==
  IF \E p \in by_alturl_ : p[1] = u
  THEN (CHOOSE p \in by_alturl_ : p[1] = u)[2]
  ELSE 0

\* an alias registration in which the later claim of an alias wins
RegisterAliasTakenOverwrites(by_alturl_, imgset) ==
  {p \in by_alturl_ : p[1] # imgset.alt_url} \cup {<<imgset.alt_url, imgset.url>>}

\* the alias registration of add_imageset: skipped when the alias is taken
RegisterAlias(by_alturl_, imgset) ==
  IF imgset.alt_url # 0
  THEN IF AltGet(by_alturl_, imgset.alt_url) # 0
       THEN by_alturl_      \* warn "duplicated AltUrl"
       ELSE by_alturl_ \cup {<<imgset.alt_url, imgset.url>>}
  ELSE by_alturl_

\* an add that assigns self.by_url[url] whatever is stored
AddImagesetOverwrites(db, imgset) ==
  [db |-> [by_url |-> {r \in db.by_url : r.url # imgset.url} \cup {imgset},
           by_alturl |-> RegisterAlias(db.by_alturl, imgset)],
   ret |-> imgset]

\* ImagesetDatabase.add_imageset on db = [by_url, by_alturl]; ret is the
\* record it returns
AddImageset(db, imgset) ==
  IF HasUrl(db.by_url, imgset.url)
  THEN [db |-> db, ret |-> GetByUrl(db.by_url, imgset.url)]
  ELSE LET main_url == AltGet(db.by_alturl, imgset.url) IN
       IF main_url # 0
       THEN [db |-> db, ret |-> GetByUrl(db.by_url, main_url)]
       ELSE [db |-> [by_url |-> db.by_url \cup {imgset},
                     by_alturl |-> RegisterAlias(db.by_alturl, imgset)],
             ret |-> imgset]

EmptyIdb == [by_url |-> {}, by_alturl |-> {}]

RECURSIVE AddAll(_, _)
\* add_imageset over a sequence of records, in order
AddAll(db, recs) ==
  IF Len(recs) = 0 THEN db
  ELSE AddAll(AddImageset(db, Head(recs)).db, Tail(recs))

RECURSIVE Flatten(_)
\* the children of the files of `order`, file after file
Flatten(order) ==
  IF Len(order) = 0 THEN <<>> ELSE Head(order).recs \o Flatten(Tail(order))

\* ImagesetDatabase.__init__: the files of db_dir in glob order `order`
LoadImagesets(order) == AddAll(EmptyIdb, Flatten(order))

\* a shard key that names every reference frame, Sky included
ImageShardKeyAnyFrame(imgset) ==
  LET k1 == <<imgset.data_set_type>>
      k2 == IF imgset.reference_frame # "None"
            THEN Append(k1, imgset.reference_frame) ELSE k1
      k3 == IF imgset.band_pass # "None" THEN Append(k2, imgset.band_pass) ELSE k2
  IN JoinLower(k3)

\* the shard key of ImagesetDatabase.rewrite
ImageShardKey(imgset) ==
  LET k1 == <<imgset.data_set_type>>
      k2 == IF imgset.reference_frame # "None" /\ imgset.reference_frame # "Sky"
            THEN Append(k1, imgset.reference_frame) ELSE k1
      k3 == IF imgset.band_pass # "None" THEN Append(k2, imgset.band_pass) ELSE k2
  IN JoinLower(k3)

RECURSIVE SortedByUrl(_)
\* sorted(imgsets, key=lambda s: s.url)
SortedByUrl(S) ==
  IF S = {} THEN <<>>
  ELSE LET m == CHOOSE r \in S : \A q \in S : r.url <= q.url
       IN <<m>> \o SortedByUrl(S \ {m})

\* by_key of ImagesetDatabase.rewrite: the keys, and the file written for one
ImageKeys(by_url_) == {ImageShardKey(r) : r \in by_url_}
ImageShardFile(by_url_, key) ==
  [name |-> key \o ".xml",
   recs |-> SortedByUrl({r \in by_url_ : ImageShardKey(r) = key})]
ImageShardFiles(by_url_) == {ImageShardFile(by_url_, k) : k \in ImageKeys(by_url_)}
\* ---------------------------------------------------------------- places
\* f"{n:0{w}d}": n in decimal, zero-padded to width w (the sign counts)
ZeroPad(n, w) ==
  LET a == IF n < 0 THEN 0 - n ELSE n
      digits == ToString(a)
      len == (IF a < 10 THEN 1 ELSE IF a < 100 THEN 2 ELSE 3) + (IF n < 0 THEN 1 ELSE 0)
      pad == IF w - len >= 2 THEN "00" ELSE IF w - len = 1 THEN "0" ELSE ""
  IN (IF n < 0 THEN "-" ELSE "") \o pad \o digits

\* The characters of the URL string u stands for, as code points: odd urls are
\* one character long, even urls are the previous url plus one character, so
\* that the integer order is the string order and one url can be a prefix of
\* another.
UrlChars(u) == IF u % 2 = 1 THEN <<(u + 1) \div 2>> ELSE <<u \div 2, 1>>

\* A place info dict as PlaceDatabase stores it; 0 stands for a url key that
\* is not in the dict, and `keys` holds the coordinate keys that are in it
\* (ingest_place stores ra_hr/dec_deg for Sky, latitude/longitude otherwise).
MkPlace(id, img) ==
  [uuid |-> id, data_set_type |-> "Sky", keys |-> {"ra_hr", "dec_deg"},
   ra_hr |-> id % 24, dec_deg |-> 10 * id, latitude |-> 0, longitude |-> 0,
   name |-> id,
   image_set_url |-> img, foreground_image_set_url |-> 0,
   background_image_set_url |-> 0, cxstatus |-> NoStatus]

\* the shard key of PlaceDatabase.rewrite (coordinates are whole numbers
\* here, so math.floor is the identity)
PlaceShardKey(info) ==
  LET k1 == <<info.data_set_type>>
      k2 == IF "ra_hr" \in info.keys
            THEN Append(k1, "ra" \o ZeroPad(info.ra_hr % 24, 2)) ELSE k1
      k3 == IF "longitude" \in info.keys
            THEN Append(k2, "lon" \o ZeroPad((info.longitude \div 10) * 10, 3)) ELSE k2
  IN JoinLower(k3)

Chr(c) == [t |-> "str", v |-> c]
Num(n) == [t |-> "num", v |-> n]

\* sortkey(info) of PlaceDatabase.rewrite: `k += u` on a str extends the list
\* by the characters of u
PlaceSortKey(info) ==
  LET chars(u) == IF u # 0 THEN [i \in 1..Len(UrlChars(u)) |-> Chr(UrlChars(u)[i])] ELSE <<>>
      coords == IF "dec_deg" \in info.keys THEN <<Num(info.dec_deg), Num(info.ra_hr)>> ELSE <<>>
      lat == IF "latitude" \in info.keys
             THEN <<Num(info.latitude)>> \o
                  (IF "longitude" \in info.keys THEN <<Num(info.longitude)>> ELSE <<>>)
             ELSE <<>>
  IN chars(info.foreground_image_set_url) \o chars(info.image_set_url)
     \o chars(info.background_image_set_url) \o coords \o lat \o <<Chr(info.name)>>

RECURSIVE TupleCompare(_, _)
\* a < b on Python tuples: the first unequal pair decides, a str and a number
\* are unequal and cannot be ordered (TypeError)
TupleCompare(a, b) ==
  IF Len(a) = 0 THEN (IF Len(b) = 0 THEN "eq" ELSE "lt")
  ELSE IF Len(b) = 0 THEN "gt"
  ELSE IF Head(a) = Head(b) THEN TupleCompare(Tail(a), Tail(b))
  ELSE IF Head(a).t # Head(b).t THEN "TypeError"
  ELSE IF Head(a).v < Head(b).v THEN "lt" ELSE "gt"

\* whether sorted(infos, key=sortkey) raises: some pair of keys cannot be ordered
SortRaises(infos) ==
  \E i, j \in 1..Len(infos) :
     i # j /\ TupleCompare(PlaceSortKey(infos[i]), PlaceSortKey(infos[j])) = "TypeError"

RECURSIVE InsertSorted(_, _)
\* x put into the sorted sequence s after every element not greater than it
InsertSorted(s, x) ==
  IF Len(s) = 0 THEN <<x>>
  ELSE IF TupleCompare(PlaceSortKey(x), PlaceSortKey(Head(s))) = "lt"
       THEN <<x>> \o s
       ELSE <<Head(s)>> \o InsertSorted(Tail(s), x)

RECURSIVE SortedPlaces(_)
\* sorted(infos, key=sortkey): stable
SortedPlaces(infos) ==
  IF Len(infos) = 0 THEN <<>>
  ELSE InsertSorted(SortedPlaces(SubSeq(infos, 1, Len(infos) - 1)), infos[Len(infos)])

\* by_key[key]: the infos of one shard, in by_uuid order
ShardInfos(by_uuid_, key) == SelectSeq(by_uuid_, LAMBDA info : PlaceShardKey(info) = key)

\* by_key of PlaceDatabase.rewrite
PlaceKeys(by_uuid_) == {PlaceShardKey(by_uuid_[i]) : i \in 1..Len(by_uuid_)}
PlaceShardFile(by_uuid_, key) ==
  [name |-> key \o ".yml", recs |-> SortedPlaces(ShardInfos(by_uuid_, key))]

RECURSIVE PutPlace(_, _)
\* self.by_uuid[info["_uuid"]] = info on an insertion-ordered dict
PutPlace(by_uuid_, info) ==
  IF Len(by_uuid_) = 0 THEN <<info>>
  ELSE IF Head(by_uuid_).uuid = info.uuid THEN <<info>> \o Tail(by_uuid_)
  ELSE <<Head(by_uuid_)>> \o PutPlace(Tail(by_uuid_), info)

RECURSIVE PutAll(_, _)
PutAll(by_uuid_, infos) ==
  IF Len(infos) = 0 THEN by_uuid_
  ELSE PutAll(PutPlace(by_uuid_, Head(infos)), Tail(infos))

\* PlaceDatabase.__init__: the files of db_dir in glob order `order`
LoadPlaces(order) == PutAll(<<>>, Flatten(order))
PlaceShardFiles(by_uuid_) == {PlaceShardFile(by_uuid_, k) : k \in PlaceKeys(by_uuid_)}

\* ------------------------------------------------------------------ state
\* A directory on disk: whether it exists, and its files (name, records).
NoDir == [exists |-> FALSE, files |-> {}]
Dir(files) == [exists |-> TRUE, files |-> files]

DBs == {"imagesets", "places"}
Items == 1..NItems
Handles == {"h1"}

VARIABLES
  pc,          \* where the running command stands; "idle" when no process runs
  cmd,         \* the command the process runs (or ran last)
  outcome,     \* how the last process ended: "none" while one runs or after a kill
  killPoint,   \* history: where the last kill hit ("none" once a later run ended)
  kills,       \* history: how many processes were killed
  runs,        \* history: how many processes were started (counted up to MaxRuns)
  flushed,     \* history: what the running (or last) process has written back
  \* the record databases (cattool.py)
  by_url,      \* ImagesetDatabase.by_url, as the set of its records
  by_alturl,   \* ImagesetDatabase.by_alturl, as a set of <<alt_url, url>>
  by_uuid,     \* PlaceDatabase.by_uuid, in insertion order
  disk,        \* per database: the live directory and its .new / .old siblings
  rwDb,        \* the database whose rewrite() is running
  todo,        \* rewrite(): the keys of by_key whose file is not written yet
  oldSet,      \* history, per database: the live files when its last rewrite began
  newSet,      \* history, per database: the files its last rewrite set out to write
  freshLoad,   \* history: the process has loaded the databases and changed nothing yet
  lastAdd,     \* history: the add_imageset call made last: its argument and result
  \* the pipeline's working directory and remote side (corepipe/base.py)
  prep,        \* prep.txt: the ledger items [corepipe_id, wip]
  stage,       \* per item: the stage directory that holds it
  work,        \* per item: the directories among candidates, rejects, cache_todo,
               \* cache_done, processed and uploaded that hold an entry named by it
  source,      \* the image source: the candidates it offers and those it finds not actionable
  itemFiles,   \* per item: the file names in its directory
  remote,      \* per item: the file names the Storage Backend holds under <id>/
  catfile,     \* the children of the catalog document places are prepended to
  imgRegs,     \* history, per item: image registrations the remote service made
  sceneRegs,   \* history, per item: scene registrations the remote service made
  indexPuts,   \* history, per item: successful puts of index.wtml
  aborted,     \* history: the exception that aborted upload()'s item loop, or "none"
  \* upload()'s local variables
  items, cur, filenames, fidx, attempt, cx_img_id, remove_ids, catfile_prepends,
  raised,      \* the exception pending while the finally block runs
  lastOp,      \* history: the last thing the running process did to the outside
  \* the Constellations prep database (cattool.py)
  cxprep,      \* cxprep/<handle>.txt: per handle, its items
  regCalls,    \* history: remote registrations made by register(), per kind and key
  exhausted,   \* history: the items whose _retry ran out of attempts
  by_handle, hq, cur_items, new_items, idx, imgids_by_url

procVars == <<pc, cmd, outcome, killPoint, kills, runs, flushed>>
dbVars == <<by_url, by_alturl, by_uuid, disk, rwDb, todo, oldSet, newSet, freshLoad, lastAdd>>
pipeState == <<prep, stage, work, source, itemFiles, remote, catfile, imgRegs, sceneRegs, indexPuts, aborted>>
pipeMem == <<items, cur, filenames, fidx, attempt, cx_img_id, remove_ids, catfile_prepends,
             raised, lastOp>>
prepState == <<cxprep, regCalls, exhausted>>
prepMem == <<by_handle, hq, cur_items, new_items, idx, imgids_by_url>>
vars == <<procVars, dbVars, pipeState, pipeMem, prepState, prepMem>>

\* Python's None where an id is expected, and the str "None" that
\* f"in:{None}" stores in its place
NoneId == 0 - 1
NoneStr == 0 - 2

\* no add_imageset call has been made
NoAdd == [made |-> FALSE]

\* what a process holds in memory is gone when it ends
MemoryCleared ==
  /\ by_url' = {}
  /\ by_alturl' = {}
  /\ by_uuid' = <<>>
  /\ todo' = {}
  /\ rwDb' = "none"
  /\ freshLoad' = FALSE
  /\ lastAdd' = NoAdd
  /\ items' = <<>>
  /\ cur' = 0
  /\ filenames' = <<>>
  /\ fidx' = 0
  /\ attempt' = 0
  /\ cx_img_id' = 0
  /\ remove_ids' = {}
  /\ catfile_prepends' = <<>>
  /\ raised' = "none"
  /\ lastOp' = "none"
  /\ by_handle' = [h \in Handles |-> <<>>]
  /\ hq' = <<>>
  /\ cur_items' = <<>>
  /\ new_items' = <<>>
  /\ idx' = 0
  /\ imgids_by_url' = {}

\* the process ends: normally ("ok") or with the exception `how` propagating
Exit(how) ==
  /\ pc' = "idle"
  /\ outcome' = how
  /\ MemoryCleared
  /\ UNCHANGED <<cmd, killPoint, kills, runs>>

\* ImagesetDatabase() and PlaceDatabase(): each globs its live directory (no
\* file when the directory is missing) and reads the files in some order
LoadDatabases ==
  /\ \E io \in Perms(disk.imagesets.live.files) :
       LET db == LoadImagesets(io) IN
       /\ by_url' = db.by_url
       /\ by_alturl' = db.by_alturl
  /\ \E po \in Perms(disk.places.live.files) : by_uuid' = LoadPlaces(po)
  /\ freshLoad' = TRUE
  /\ lastAdd' = NoAdd

StartProcess(c, at) ==
  /\ pc = "idle"
  /\ pc' = at
  /\ cmd' = c
  /\ outcome' = "none"
  /\ killPoint' = IF outcome # "none" THEN "none" ELSE killPoint
  /\ kills' = kills
  /\ runs' = IF runs < MaxRuns THEN runs + 1 ELSE runs
  /\ flushed' = {}

\* ----------------------------------------------------------- rewrite()
RewriteSwapReadyEarly(todo_) == TRUE

\* the renames follow the loop that writes the shard files
RewriteSwapReady(todo_) == todo_ = {}

\* open(path, "wt") and write: the file is created, or replaced
WriteFile(files, f) == {g \in files : g.name # f.name} \cup {f}

ShardDirLive == "live"

\* the directory the shard files are written into: tempdir, the .new sibling
ShardDir == "new"

KeysOf(db) == IF db = "imagesets" THEN ImageKeys(by_url) ELSE PlaceKeys(by_uuid)
FilesOf(db) == IF db = "imagesets" THEN ImageShardFiles(by_url) ELSE PlaceShardFiles(by_uuid)

\* what a rewrite() step leaves alone
RewriteFrame == UNCHANGED <<cmd, outcome, killPoint, kills, runs, by_url, by_alturl, by_uuid,
                            freshLoad, lastAdd, pipeState, pipeMem, prepState, prepMem>>

\* an exception leaves rewrite(): no caller catches it, the process ends
RewriteRaises(how) ==
  /\ Exit(how)
  /\ UNCHANGED <<flushed, disk, oldSet, newSet, pipeState, prepState>>

\* rewrite() up to tempdir.mkdir(): by_key is computed, then the .new sibling
\* is created, which fails when it is there already
RewriteMkdir ==
  /\ pc = "rw_mkdir"
  /\ IF disk[rwDb].new.exists
     THEN RewriteRaises("FileExistsError")
     ELSE /\ disk' = [disk EXCEPT ![rwDb].new = Dir({})]
          /\ todo' = KeysOf(rwDb)
          /\ oldSet' = [oldSet EXCEPT ![rwDb] = disk[rwDb].live.files]
          /\ newSet' = [newSet EXCEPT ![rwDb] = FilesOf(rwDb)]
          /\ pc' = "rw_write"
          /\ UNCHANGED <<rwDb, flushed>>
          /\ RewriteFrame

\* one turn of `for key, ... in by_key.items()`: sort the shard, write its file
RewriteWriteShard ==
  /\ pc = "rw_write"
  /\ todo # {}
  /\ LET key == CHOOSE k \in todo : TRUE IN
     IF rwDb = "places" /\ SortRaises(ShardInfos(by_uuid, key))
     THEN RewriteRaises("TypeError")
     ELSE /\ disk' = [disk EXCEPT ![rwDb][ShardDir].files =
                        WriteFile(@, IF rwDb = "imagesets" THEN ImageShardFile(by_url, key)
                                     ELSE PlaceShardFile(by_uuid, key))]
          /\ todo' = todo \ {key}
          /\ UNCHANGED <<pc, rwDb, oldSet, newSet, flushed>>
          /\ RewriteFrame

\* self.db_dir.rename(olddir): rename(2) replaces an empty directory and
\* fails on one that holds files
RewriteRenameLive ==
  /\ pc = "rw_write"
  /\ RewriteSwapReady(todo)
  /\ IF ~disk[rwDb].live.exists
     THEN RewriteRaises("FileNotFoundError")
     ELSE IF disk[rwDb].old.exists /\ disk[rwDb].old.files # {}
     THEN RewriteRaises("OSError")
     ELSE /\ disk' = [disk EXCEPT ![rwDb].old = disk[rwDb].live, ![rwDb].live = NoDir]
          /\ pc' = "rw_rename2"
          /\ UNCHANGED <<rwDb, todo, oldSet, newSet, flushed>>
          /\ RewriteFrame

\* tempdir.rename(self.db_dir)
RewriteRenameNew ==
  /\ pc = "rw_rename2"
  /\ disk' = [disk EXCEPT ![rwDb].live = disk[rwDb].new, ![rwDb].new = NoDir]
  /\ pc' = "rw_rmtree"
  /\ UNCHANGED <<rwDb, todo, oldSet, newSet, flushed>>
  /\ RewriteFrame

\* shutil.rmtree(olddir) unlinks the files one by one ...
RewriteRmtreeFile ==
  /\ pc = "rw_rmtree"
  /\ disk[rwDb].old.files # {}
  /\ disk' = [disk EXCEPT ![rwDb].old.files = @ \ {CHOOSE f \in @ : TRUE}]
  /\ UNCHANGED <<pc, rwDb, todo, oldSet, newSet, flushed>>
  /\ RewriteFrame

\* where a command goes on once idb.rewrite() and pdb.rewrite() are done
AfterRewrites(c) ==
  IF c = "upload" THEN "up_catfiles"
  ELSE IF c = "register" THEN "reg_prep"
  ELSE IF c = "rewrite_twice" THEN "again"
  ELSE "exit"

\* ... and removes the directory; rewrite() returns. Every command rewrites
\* the imagesets, then the places.
RewriteRmtreeDir ==
  /\ pc = "rw_rmtree"
  /\ disk[rwDb].old.files = {}
  /\ disk' = [disk EXCEPT ![rwDb].old = NoDir]
  /\ oldSet' = [oldSet EXCEPT ![rwDb] = newSet[rwDb]]
  /\ flushed' = flushed \cup {rwDb}
  /\ IF rwDb = "imagesets"
     THEN /\ rwDb' = "places"
          /\ pc' = "rw_mkdir"
     ELSE /\ rwDb' = "none"
          /\ pc' = AfterRewrites(cmd)
  /\ UNCHANGED <<todo, newSet>>
  /\ RewriteFrame

\* the process is killed: nothing more runs, no finally block, memory is gone
Kill ==
  /\ pc # "idle"
  /\ kills < MaxKills
  /\ kills' = kills + 1
  /\ pc' = "idle"
  /\ outcome' = "none"
  /\ killPoint' = IF pc = "up_regimg" /\ lastOp = "rename" THEN "after_rename" ELSE pc
  /\ MemoryCleared
  /\ UNCHANGED <<cmd, runs, flushed, disk, oldSet, newSet, pipeState, prepState>>

RewriteNext ==
  \/ RewriteMkdir
  \/ RewriteWriteShard
  \/ RewriteRenameLive
  \/ RewriteRenameNew
  \/ RewriteRmtreeFile
  \/ RewriteRmtreeDir

\* ------------------------------------------------- cattool.py: do_ingest
\* idb = ImagesetDatabase(); pdb = PlaceDatabase()
IngestStart ==
  /\ StartProcess("ingest", "main")
  /\ LoadDatabases
  /\ UNCHANGED <<disk, rwDb, todo, oldSet, newSet, pipeState, pipeMem, prepState, prepMem>>

\* folder_to_yaml: c = idb.add_imageset(c) for an ImageSet child
IngestImageset ==
  /\ pc = "main"
  /\ cmd = "ingest"
  /\ \E imgset \in ImageSets :
       LET r == AddImageset([by_url |-> by_url, by_alturl |-> by_alturl], imgset) IN
       /\ by_url' = r.db.by_url
       /\ by_alturl' = r.db.by_alturl
       /\ lastAdd' = [made |-> TRUE, arg |-> imgset, ret |-> r.ret]
  /\ freshLoad' = FALSE
  /\ UNCHANGED <<procVars, by_uuid, disk, rwDb, todo, oldSet, newSet,
                 pipeState, pipeMem, prepState, prepMem>>

\* idb.rewrite() is entered (pdb.rewrite() follows it)
IngestRewrite ==
  /\ pc = "main"
  /\ cmd = "ingest"
  /\ pc' = "rw_mkdir"
  /\ rwDb' = "imagesets"
  /\ lastAdd' = NoAdd
  /\ UNCHANGED <<cmd, outcome, killPoint, kills, runs, flushed, by_url, by_alturl, by_uuid,
                 disk, todo, oldSet, newSet, freshLoad, pipeState, pipeMem, prepState, prepMem>>

\* the command returns
ExitOk ==
  /\ pc = "exit"
  /\ Exit("ok")
  /\ UNCHANGED <<flushed, disk, oldSet, newSet, pipeState, prepState>>

\* an image source that offers nothing
NoSource == [feed |-> <<>>, bad |-> {}, astropix |-> "unset"]

\* the parts of the state a specification does not use
NoPipeline ==
  /\ prep = <<>>
  /\ stage = [i \in Items |-> "processed"]
  /\ work = [i \in Items |-> {"candidates", "cache_done", "processed"}]
  /\ source = NoSource
  /\ itemFiles = [i \in Items |-> {}]
  /\ remote = [i \in Items |-> {}]
  /\ catfile = <<>>
  /\ imgRegs = [i \in Items |-> 0]
  /\ sceneRegs = [i \in Items |-> 0]
  /\ indexPuts = [i \in Items |-> 0]
  /\ aborted = "none"

NoPrep ==
  /\ cxprep = [h \in Handles |-> <<>>]
  /\ regCalls = [image |-> [u \in Urls |-> 0], scene |-> [u \in Urls |-> 0]]
  /\ exhausted = {}

IdleInit ==
  /\ pc = "idle"
  /\ cmd = "none"
  /\ outcome = "none"
  /\ killPoint = "none"
  /\ kills = 0
  /\ runs = 0
  /\ flushed = {}
  /\ by_url = {}
  /\ by_alturl = {}
  /\ by_uuid = <<>>
  /\ rwDb = "none"
  /\ todo = {}
  /\ freshLoad = FALSE
  /\ lastAdd = NoAdd
  /\ items = <<>>
  /\ cur = 0
  /\ filenames = <<>>
  /\ fidx = 0
  /\ attempt = 0
  /\ cx_img_id = 0
  /\ remove_ids = {}
  /\ catfile_prepends = <<>>
  /\ raised = "none"
  /\ lastOp = "none"
  /\ by_handle = [h \in Handles |-> <<>>]
  /\ hq = <<>>
  /\ cur_items = <<>>
  /\ new_items = <<>>
  /\ idx = 0
  /\ imgids_by_url = {}

\* the databases on disk hold the image records imgs and the places infos
DiskHolds(imgs, infos) ==
  /\ disk = [imagesets |-> [live |-> Dir(ImageShardFiles(imgs)), new |-> NoDir, old |-> NoDir],
             places |-> [live |-> Dir(PlaceShardFiles(infos)), new |-> NoDir, old |-> NoDir]]
  /\ oldSet = [imagesets |-> ImageShardFiles(imgs), places |-> PlaceShardFiles(infos)]
  /\ newSet = oldSet

DbInit ==
  /\ IdleInit
  /\ NoPipeline
  /\ NoPrep
  /\ DiskHolds({MkImageSet(MaxUrl, 0)}, <<MkPlace(1, MaxUrl)>>)

DbNext ==
  \/ IngestStart
  \/ IngestImageset
  \/ IngestRewrite
  \/ RewriteNext
  \/ ExitOk
  \/ Kill

\* cattool.py ingest runs, each of which may be killed at any step
SpecDb == DbInit /\ [][DbNext]_vars

\* ------------------------------------------- corepipe/base.py: upload()
\* what process_todos leaves in processed/<id>/
ProcessedFiles == {"index_rel.wtml", "thumb.jpg"}

\* the id the remote service gives the image or scene it registers for `key`
RemoteId(key) == key

\* the URL of the imageset of item i (under publish_url_prefix + <id>/)
ItemUrl(i) == i

\* the place uuid4() draws for item i: one that no place has yet
ItemUuid(i) == MaxUrl + i

IndexLastNoSwap(fn) == fn

\* filenames.index("index.wtml") and the swap with the last entry
IndexLast(fn) ==
  IF \E k \in 1..Len(fn) : fn[k] = "index.wtml"
  THEN LET index_index == CHOOSE k \in 1..Len(fn) :
                            fn[k] = "index.wtml" /\ \A j \in 1..(k - 1) : fn[j] # "index.wtml"
           temp == fn[Len(fn)]
       IN [[fn EXCEPT ![Len(fn)] = "index.wtml"] EXCEPT ![index_index] = temp]
  ELSE fn

PutsDoneEarly(fidx_, fn) == TRUE

\* `for filename in filenames` has run to its end
PutsDone(fidx_, fn) == fidx_ > Len(fn)

\* a _retry whose loop has no last attempt
RetryStepUnbounded(att, res) ==
  IF res = "ok"
  THEN [done |-> TRUE, none |-> FALSE, raises |-> "none", attempt |-> att, sleep |-> 0]
  ELSE IF res = "ConnectionError"
  THEN [done |-> FALSE, none |-> FALSE, raises |-> "none", attempt |-> att + 1,
        sleep |-> RetryDelay]
  ELSE [done |-> TRUE, none |-> FALSE, raises |-> res, attempt |-> att, sleep |-> 0]

\* one attempt of _retry(operation), the attempts before it having raised
\* ConnectionError: the operation's result ends the loop, ConnectionError
\* goes to the next attempt after time.sleep(0.5), any other exception
\* propagates; after the last attempt the loop ends and the function
\* returns None
RetryStep(att, res) ==
  IF res = "ok"
  THEN [done |-> TRUE, none |-> FALSE, raises |-> "none", attempt |-> att, sleep |-> 0]
  ELSE IF res = "ConnectionError"
  THEN IF att + 1 < RetryLimit
       THEN [done |-> FALSE, none |-> FALSE, raises |-> "none", attempt |-> att + 1,
             sleep |-> RetryDelay]
       ELSE [done |-> TRUE, none |-> TRUE, raises |-> "none", attempt |-> att + 1,
             sleep |-> RetryDelay]
  ELSE [done |-> TRUE, none |-> FALSE, raises |-> res, attempt |-> att, sleep |-> 0]

\* what a remote call can do
CallResults == {"ok", "ConnectionError", "HTTPError"}

\* a call binds when the function has a parameter for each keyword it passes
CallBinds(keywords, params) == keywords \subseteq params

\* def _register_scene(client, fields, place, imgid)
RegisterSceneParams == {"client", "fields", "place", "imgid"}
\* _register_scene(handle_client, fields, place, cx_img_id, apid=apid, published=False)
UploadSceneKeywords == {"apid", "published"}
\* def ingest_place(self, place, idb)
IngestPlaceParams == {"self", "place", "idb"}
\* pdb.ingest_place(place, idb, new_id=place_uuid)
UploadIngestKeywords == {"new_id"}

Reverse(s) == [k \in 1..Len(s) |-> s[Len(s) + 1 - k]]

\* a test that finds no marker directory
AlreadyUploadedNever(stage_, uniq_id) == FALSE

\* already_uploaded = os.path.exists(self._path("uploaded", uniq_id))
AlreadyUploaded(stage_, uniq_id) == stage_[uniq_id] = "uploaded"

\* upload() up to its item loop: the databases and prep.txt are loaded
UploadStart ==
  /\ StartProcess("upload", "up_loop")
  /\ LoadDatabases
  /\ items' = prep
  /\ cur' = 1
  /\ remove_ids' = {}
  /\ catfile_prepends' = <<>>
  /\ aborted' = "none"
  /\ UNCHANGED <<disk, rwDb, todo, oldSet, newSet, prep, stage, work, source, itemFiles, remote, catfile,
                 imgRegs, sceneRegs, indexPuts, filenames, fidx, attempt, cx_img_id, raised,
                 lastOp, prepState, prepMem>>

\* what a step of the item loop leaves alone
UploadFrame == UNCHANGED <<cmd, outcome, killPoint, kills, runs, flushed, dbVars, prep, catfile,
                           items, remove_ids, catfile_prepends, prepState, prepMem>>

\* the head of one turn of `for kind, fields in items`, up to the first put
\* or, for an item found in uploaded/, up to its registration; past the last
\* item the loop ends and the finally block is entered
UploadItem ==
  /\ pc = "up_loop"
  /\ IF cur > Len(items)
     THEN /\ pc' = "rw_mkdir"
          /\ UNCHANGED <<cur, itemFiles, filenames, fidx, attempt>>
     ELSE IF items[cur].wip
     THEN /\ cur' = cur + 1
          /\ UNCHANGED <<pc, itemFiles, filenames, fidx, attempt>>
     ELSE LET uniq_id == items[cur].corepipe_id IN
          IF AlreadyUploaded(stage, uniq_id)
          THEN /\ pc' = "up_regimg"
               /\ attempt' = 0
               /\ UNCHANGED <<cur, itemFiles, filenames, fidx>>
          ELSE /\ itemFiles' = [itemFiles EXCEPT ![uniq_id] = @ \cup {"index.wtml"}]
               /\ \E listdir \in Perms(itemFiles'[uniq_id]) : filenames' = IndexLast(listdir)
               /\ fidx' = 1
               /\ pc' = "up_put"
               /\ UNCHANGED <<cur, attempt>>
  /\ UNCHANGED <<stage, work, source, remote, imgRegs, sceneRegs, indexPuts, aborted, cx_img_id, raised,
                 lastOp>>
  /\ IF pc' = "rw_mkdir"
     THEN /\ rwDb' = "imagesets"
          /\ UNCHANGED <<cmd, outcome, killPoint, kills, runs, flushed, by_url, by_alturl,
                         by_uuid, disk, todo, oldSet, newSet, freshLoad, lastAdd, prep, catfile, items,
                         remove_ids, catfile_prepends, prepState, prepMem>>
     ELSE UploadFrame

\* self._pipeio.put_item(uniq_id, filename, source=f): the file is stored, or
\* the call raises and the finally block is entered
UploadPut ==
  /\ pc = "up_put"
  /\ fidx <= Len(filenames)
  /\ LET uniq_id == items[cur].corepipe_id
         filename == filenames[fidx]
     IN \/ /\ remote' = [remote EXCEPT ![uniq_id] = @ \cup {filename}]
           /\ indexPuts' = [indexPuts EXCEPT ![uniq_id] =
                              IF filename = "index.wtml" THEN @ + 1 ELSE @]
           /\ fidx' = fidx + 1
           /\ lastOp' = "put"
           /\ UNCHANGED <<pc, raised, aborted>>
           /\ UploadFrame
        \/ /\ pc' = "rw_mkdir"
           /\ rwDb' = "imagesets"
           /\ raised' = "OSError"
           /\ aborted' = "OSError"
           /\ UNCHANGED <<remote, indexPuts, fidx, lastOp>>
           /\ UNCHANGED <<cmd, outcome, killPoint, kills, runs, flushed, by_url, by_alturl,
                          by_uuid, disk, todo, oldSet, newSet, freshLoad, lastAdd, prep, catfile, items,
                          remove_ids, catfile_prepends, prepState, prepMem>>
  /\ UNCHANGED <<stage, work, source, itemFiles, imgRegs, sceneRegs, cur, filenames, attempt, cx_img_id>>

\* os.rename(processed/<id>, uploaded/<id>)
UploadRename ==
  /\ pc = "up_put"
  /\ PutsDone(fidx, filenames)
  /\ stage' = [stage EXCEPT ![items[cur].corepipe_id] = "uploaded"]
  /\ work' = [work EXCEPT ![items[cur].corepipe_id] = (@ \ {"processed"}) \cup {"uploaded"}]
  /\ source' = source
  /\ pc' = "up_regimg"
  /\ attempt' = 0
  /\ lastOp' = "rename"
  /\ UNCHANGED <<itemFiles, remote, imgRegs, sceneRegs, indexPuts, aborted, cur, filenames,
                 fidx, cx_img_id, raised>>
  /\ UploadFrame

\* one attempt of cx_img_id = _register_image(handle_client, fields, imgset)
UploadRegisterImage ==
  /\ pc = "up_regimg"
  /\ LET uniq_id == items[cur].corepipe_id IN
     \E res \in CallResults :
       LET r == RetryStep(attempt, res) IN
       /\ res = "ok" => imgRegs[uniq_id] < MaxRegs
       /\ imgRegs' = [imgRegs EXCEPT ![uniq_id] = IF res = "ok" THEN @ + 1 ELSE @]
       /\ lastOp' = IF res = "ok" THEN "regimg" ELSE "retry"
       /\ attempt' = r.attempt
       /\ IF r.raises # "none"
          THEN /\ pc' = "rw_mkdir"
               /\ rwDb' = "imagesets"
               /\ raised' = r.raises
               /\ aborted' = r.raises
               /\ UNCHANGED cx_img_id
               /\ UNCHANGED <<cmd, outcome, killPoint, kills, runs, flushed, by_url, by_alturl,
                              by_uuid, disk, todo, oldSet, newSet, freshLoad, lastAdd, prep, catfile,
                              items, remove_ids, catfile_prepends, prepState, prepMem>>
          ELSE /\ pc' = IF r.done THEN "up_regscene" ELSE pc
               /\ cx_img_id' = IF ~r.done THEN cx_img_id
                               ELSE IF r.none THEN NoneId ELSE RemoteId(uniq_id)
               /\ UNCHANGED <<raised, aborted>>
               /\ UploadFrame
  /\ UNCHANGED <<stage, work, source, itemFiles, remote, sceneRegs, indexPuts, cur, filenames, fidx>>

\* f"in:{id}": the status stamped for a remote id; None is spelled "None"
Stamp(id) == [tag |-> "in", val |-> IF id = NoneId THEN NoneStr ELSE id]

\* the imageset of item i as upload() stamps it
ItemImageSet(i, id) ==
  [MkImageSet(ItemUrl(i), 0) EXCEPT !.cxstatus = Stamp(id), !.corepipe_ids = i]

\* the place of item i as upload() stamps it
ItemPlace(i, id) ==
  [MkPlace(ItemUuid(i), ItemUrl(i)) EXCEPT !.cxstatus = Stamp(id)]

\* the rest of the turn: cx_scene_id = _register_scene(...), then the
\* insertion into idb and pdb, the catalog prepend and remove_ids.add(). The
\* call passes keywords _register_scene() does not have, so binding its
\* arguments raises TypeError before its body runs.
UploadRegisterScene ==
  /\ pc = "up_regscene"
  /\ LET uniq_id == items[cur].corepipe_id IN
     IF ~CallBinds(UploadSceneKeywords, RegisterSceneParams)
     THEN /\ pc' = "rw_mkdir"
          /\ rwDb' = "imagesets"
          /\ raised' = "TypeError"
          /\ aborted' = "TypeError"
          /\ lastOp' = "raise"
          /\ UNCHANGED <<sceneRegs, by_url, by_alturl, by_uuid, freshLoad, lastAdd, cur, remove_ids,
                         catfile_prepends>>
     ELSE /\ sceneRegs' = [sceneRegs EXCEPT ![uniq_id] = @ + 1]
          /\ lastOp' = "regscene"
          /\ LET r == AddImageset([by_url |-> by_url, by_alturl |-> by_alturl],
                                  ItemImageSet(uniq_id, cx_img_id)) IN
             /\ by_url' = r.db.by_url
             /\ by_alturl' = r.db.by_alturl
          /\ freshLoad' = FALSE
          /\ lastAdd' = NoAdd
          /\ IF ~CallBinds(UploadIngestKeywords, IngestPlaceParams)
             THEN /\ pc' = "rw_mkdir"
                  /\ rwDb' = "imagesets"
                  /\ raised' = "TypeError"
                  /\ aborted' = "TypeError"
                  /\ UNCHANGED <<by_uuid, cur, remove_ids, catfile_prepends>>
             ELSE /\ by_uuid' = PutPlace(by_uuid, ItemPlace(uniq_id, RemoteId(uniq_id)))
                  /\ catfile_prepends' = Append(catfile_prepends, ItemUuid(uniq_id))
                  /\ remove_ids' = remove_ids \cup {uniq_id}
                  /\ cur' = cur + 1
                  /\ pc' = "up_loop"
                  /\ UNCHANGED <<rwDb, raised, aborted>>
  /\ UNCHANGED <<cmd, outcome, killPoint, kills, runs, flushed, disk, todo, oldSet, newSet,
                 prep, stage, work, source, itemFiles, remote, catfile, imgRegs, indexPuts, items, filenames,
                 fidx, attempt, cx_img_id, prepState, prepMem>>

\* finally, after the two rewrites: the catalog documents get their prepends
UploadWriteCatfiles ==
  /\ pc = "up_catfiles"
  /\ catfile' = Reverse(catfile_prepends) \o catfile
  /\ flushed' = flushed \cup {"catfiles"}
  /\ pc' = "up_prep"
  /\ UNCHANGED <<cmd, outcome, killPoint, kills, runs, dbVars, prep, stage, work, source, itemFiles, remote,
                 imgRegs, sceneRegs, indexPuts, aborted, pipeMem, prepState, prepMem>>

\* a ledger rewrite that also drops the items held back by a wip field
NewItemsWithoutWip(items_, remove_ids_) ==
  SelectSeq(items_, LAMBDA it : it.corepipe_id \notin remove_ids_ /\ ~it.wip)

\* new_items: the items whose corepipe_id is not in remove_ids, in order
NewItems(items_, remove_ids_) ==
  SelectSeq(items_, LAMBDA it : it.corepipe_id \notin remove_ids_)

\* finally, last: prep.txt is rewritten without the items of remove_ids; the
\* pending exception, if any, then leaves upload()
UploadWritePrep ==
  /\ pc = "up_prep"
  /\ prep' = NewItems(items, remove_ids)
  /\ flushed' = flushed \cup {"prep"}
  /\ Exit(IF raised = "none" THEN "ok" ELSE raised)
  /\ UNCHANGED <<disk, oldSet, newSet, stage, work, source, itemFiles, remote, catfile, imgRegs, sceneRegs,
                 indexPuts, aborted, prepState>>

\* prep.txt as process_todos and its human editor leave it: every item, each
\* either held back by a wip field or ready with the fields registration reads
PrepFiles == {[k \in 1..NItems |-> [corepipe_id |-> k, wip |-> w[k]]] : w \in [Items -> BOOLEAN]}

UploadInit ==
  /\ IdleInit
  /\ NoPrep
  /\ DiskHolds({MkImageSet(MaxUrl, 0)}, <<MkPlace(1, MaxUrl)>>)
  /\ prep \in PrepFiles
  /\ stage = [i \in Items |-> "processed"]
  /\ work = [i \in Items |-> {"candidates", "cache_done", "processed"}]
  /\ source = NoSource
  /\ itemFiles = [i \in Items |-> ProcessedFiles]
  /\ remote = [i \in Items |-> {}]
  /\ catfile = <<1>>
  /\ imgRegs = [i \in Items |-> 0]
  /\ sceneRegs = [i \in Items |-> 0]
  /\ indexPuts = [i \in Items |-> 0]
  /\ aborted = "none"

UploadNext ==
  \/ UploadStart
  \/ UploadItem
  \/ UploadPut
  \/ UploadRename
  \/ UploadRegisterImage
  \/ UploadRegisterScene
  \/ RewriteNext
  \/ UploadWriteCatfiles
  \/ UploadWritePrep
  \/ Kill

\* pipeline.py upload runs, each of which may be killed at any step
SpecUpload == UploadInit /\ [][UploadNext]_vars

\* ------------------------- cattool.py: register-cxprep and register()
\* imgids_by_url.get(img_url)
ImgIdGet(m, u) == IF \E p \in m : p[1] = u THEN (CHOOSE p \in m : p[1] = u)[2] ELSE NoneId

\* imgids_by_url[url] = id
ImgIdPut(m, u, id) == {p \in m : p[1] # u} \cup {<<u, id>>}

\* the prefill: the ids of the records whose cxstatus starts with "in:"
PrefillImgIds(by_url_) == {<<r.url, r.cxstatus.val>> : r \in {q \in by_url_ : q.cxstatus.tag = "in"}}

\* imgset.xmeta.cxstatus = status for the record of url u
StampImage(by_url_, u, status) ==
  {IF r.url = u THEN [r EXCEPT !.cxstatus = status] ELSE r : r \in by_url_}

\* pdb.by_uuid[uuid]["cxstatus"] = status
StampPlace(by_uuid_, uuid, status) ==
  [k \in 1..Len(by_uuid_) |->
     IF by_uuid_[k].uuid = uuid THEN [by_uuid_[k] EXCEPT !.cxstatus = status] ELSE by_uuid_[k]]

HasPlace(by_uuid_, uuid) == \E k \in 1..Len(by_uuid_) : by_uuid_[k].uuid = uuid

\* do_register_cxprep up to register()'s handle loop: the three databases
\* are loaded and imgids_by_url is prefilled
RegStart ==
  /\ StartProcess("register", "reg_handle")
  /\ LoadDatabases
  /\ by_handle' = cxprep
  /\ imgids_by_url' = PrefillImgIds(by_url')
  /\ \E order \in Perms(Handles) : hq' = order
  /\ exhausted' = {}
  /\ UNCHANGED <<disk, rwDb, todo, oldSet, newSet, pipeState, pipeMem, cxprep, regCalls,
                 cur_items, new_items, idx>>

\* what a step of register() leaves alone
RegFrame == UNCHANGED <<cmd, outcome, killPoint, kills, runs, flushed, disk, todo, oldSet,
                        newSet, pipeState, cxprep, items, cur, filenames, fidx, cx_img_id,
                        remove_ids, catfile_prepends, raised, lastOp>>

\* `for handle in list(self.by_handle.keys())`: the next handle's items are
\* taken up; after the last handle register() returns and idb.rewrite() runs
RegNextHandle ==
  /\ pc = "reg_handle"
  /\ IF hq = <<>>
     THEN /\ pc' = "rw_mkdir"
          /\ rwDb' = "imagesets"
          /\ UNCHANGED <<cur_items, new_items, idx>>
     ELSE /\ cur_items' = by_handle[Head(hq)]
          /\ new_items' = <<>>
          /\ idx' = 1
          /\ pc' = "reg_item"
          /\ UNCHANGED rwDb
  /\ UNCHANGED <<by_url, by_alturl, by_uuid, freshLoad, lastAdd, attempt, regCalls, exhausted,
                 by_handle, hq, imgids_by_url>>
  /\ RegFrame

\* self.by_handle[handle] = new_items
RegEndHandle ==
  /\ pc = "reg_item"
  /\ idx > Len(cur_items)
  /\ by_handle' = [by_handle EXCEPT ![Head(hq)] = new_items]
  /\ hq' = Tail(hq)
  /\ pc' = "reg_handle"
  /\ UNCHANGED <<by_url, by_alturl, by_uuid, freshLoad, lastAdd, rwDb, attempt, regCalls, exhausted,
                 cur_items, new_items, idx, imgids_by_url>>
  /\ RegFrame

\* an exception leaves register(): do_register_cxprep does not catch it
RegRaises(how) ==
  /\ Exit(how)
  /\ UNCHANGED <<flushed, disk, oldSet, newSet, pipeState, cxprep>>

\* one turn of `for kind, fields in items`, or, while a _retry is under way,
\* its next attempt
RegItem ==
  /\ pc = "reg_item"
  /\ idx <= Len(cur_items)
  /\ LET item == cur_items[idx] IN
     IF item.wip
     THEN /\ new_items' = Append(new_items, item)
          /\ idx' = idx + 1
          /\ UNCHANGED <<pc, by_url, by_alturl, by_uuid, freshLoad, lastAdd, rwDb, attempt, regCalls,
                         exhausted, by_handle, hq, cur_items, imgids_by_url>>
          /\ RegFrame
     ELSE IF item.kind = "scene" /\ ImgIdGet(imgids_by_url, item.url) = NoneId
     THEN \* `if not img_id`: warn and continue
          /\ idx' = idx + 1
          /\ UNCHANGED <<pc, by_url, by_alturl, by_uuid, freshLoad, lastAdd, rwDb, attempt, regCalls,
                         exhausted, by_handle, hq, cur_items, new_items, imgids_by_url>>
          /\ RegFrame
     ELSE IF item.kind = "scene" /\ ~HasPlace(by_uuid, item.place_uuid)
     THEN \* pdb.reconst_by_id: self.by_uuid[uuid]
          /\ RegRaises("KeyError")
          /\ UNCHANGED <<regCalls, exhausted>>
     ELSE \E res \in CallResults :
            LET r == RetryStep(attempt, res)
                key == IF item.kind = "image" THEN item.url ELSE item.place_uuid
                id == IF r.none THEN NoneId ELSE RemoteId(key)
            IN
            /\ res = "ok" => regCalls[item.kind][key] < MaxRegs
            /\ regCalls' = [regCalls EXCEPT ![item.kind][key] = IF res = "ok" THEN @ + 1 ELSE @]
            /\ exhausted' = IF r.none THEN exhausted \cup {<<item.kind, key>>} ELSE exhausted
            /\ IF r.raises # "none"
               THEN RegRaises(r.raises)
               ELSE IF ~r.done
               THEN /\ attempt' = r.attempt
                    /\ UNCHANGED <<pc, by_url, by_alturl, by_uuid, freshLoad, lastAdd, rwDb, by_handle,
                                   hq, cur_items, new_items, idx, imgids_by_url>>
                    /\ RegFrame
               ELSE /\ attempt' = 0
                    /\ idx' = idx + 1
                    /\ freshLoad' = FALSE
                    /\ lastAdd' = NoAdd
                    /\ IF item.kind = "image"
                       THEN /\ by_url' = StampImage(by_url, item.url, Stamp(id))
                            /\ imgids_by_url' = ImgIdPut(imgids_by_url, item.url, id)
                            /\ UNCHANGED by_uuid
                       ELSE /\ by_uuid' = StampPlace(by_uuid, item.place_uuid, Stamp(id))
                            /\ UNCHANGED <<by_url, imgids_by_url>>
                    /\ UNCHANGED <<pc, by_alturl, rwDb, by_handle, hq, cur_items, new_items>>
                    /\ RegFrame

\* a command that returns without writing the ledger files
RegRewritePrepKeepsLedger ==
  /\ pc = "reg_prep"
  /\ flushed' = flushed \cup {"cxprep"}
  /\ Exit("ok")
  /\ UNCHANGED <<disk, oldSet, newSet, pipeState, cxprep, regCalls, exhausted>>

\* cxpdb.rewrite(): every handle's file is written from by_handle; the
\* command returns
RegRewritePrep ==
  /\ pc = "reg_prep"
  /\ cxprep' = by_handle
  /\ flushed' = flushed \cup {"cxprep"}
  /\ Exit("ok")
  /\ UNCHANGED <<disk, oldSet, newSet, pipeState, regCalls, exhausted>>

\* a record as update() leaves it: queued for a handle
Queued(rec) == [rec EXCEPT !.cxstatus = [tag |-> "queue", val |-> 1]]

\* the items update() writes for two images and the place that shows the first
LedgerItems ==
  {[kind |-> "image", url |-> 1, place_uuid |-> 0],
   [kind |-> "image", url |-> 2, place_uuid |-> 0],
   [kind |-> "scene", url |-> 1, place_uuid |-> 1]}

\* a ledger file as its human editor leaves it: the items in some order, each
\* held back by a wip field or not
LedgerFiles ==
  UNION {{[k \in 1..Len(o) |-> [kind |-> o[k].kind, url |-> o[k].url,
                                place_uuid |-> o[k].place_uuid, wip |-> w[k]]] :
            w \in [1..Len(o) -> BOOLEAN]} : o \in Perms(LedgerItems)}

RegInit ==
  /\ IdleInit
  /\ NoPipeline
  /\ DiskHolds({Queued(MkImageSet(1, 0)), Queued(MkImageSet(2, 0))}, <<Queued(MkPlace(1, 1))>>)
  /\ cxprep \in [Handles -> LedgerFiles]
  /\ regCalls = [image |-> [u \in Urls |-> 0], scene |-> [u \in Urls |-> 0]]
  /\ exhausted = {}

RegNext ==
  \/ RegStart
  \/ RegNextHandle
  \/ RegItem
  \/ RegEndHandle
  \/ RewriteNext
  \/ RegRewritePrep
  \/ Kill

\* cattool.py register-cxprep runs, each of which may be killed at any step
SpecRegister == RegInit /\ [][RegNext]_vars

\* register-cxprep runs that no one kills
RegRunsNext ==
  \/ RegStart
  \/ RegNextHandle
  \/ RegItem
  \/ RegEndHandle
  \/ RewriteNext
  \/ RegRewritePrep

SpecRegRuns == RegInit /\ [][RegRunsNext]_vars

\* a running register() goes on to its next item or attempt
SpecRegRunsFair == RegInit /\ [][RegRunsNext]_vars /\ WF_vars(RegItem)

\* ------------------------------------- rewrite() applied twice in a row
\* the places a caller can hold: two of one shard, one whose image URL is
\* longer than the others', and one on a planet, west of the prime meridian
\* (ingest_place stores latitude/longitude when the data set type is not Sky)
PlaceInputs ==
  {MkPlace(1, 1), MkPlace(25, 1), MkPlace(2, 2),
   [MkPlace(3, 3) EXCEPT !.data_set_type = "Planet", !.keys = {"latitude", "longitude"},
                         !.latitude = 4, !.longitude = 0 - 25]}

\* the sequences, without repetition, of at most n elements of S
SeqsUpTo(S, n) == UNION {Perms(T) : T \in {U \in SUBSET S : Cardinality(U) <= n}}

\* a process holds the databases a sequence of insertions has built, and is
\* about to call idb.rewrite() and pdb.rewrite()
TwiceInit ==
  /\ NoPipeline
  /\ NoPrep
  /\ DiskHolds({MkImageSet(MaxUrl, 0)}, <<MkPlace(1, MaxUrl)>>)
  /\ pc = "rw_mkdir"
  /\ cmd = "rewrite_twice"
  /\ outcome = "none"
  /\ killPoint = "none"
  /\ kills = 0
  /\ runs = 1
  /\ flushed = {}
  /\ \E adds \in SeqsUpTo(ImageSets, 2) :
       LET db == AddAll(EmptyIdb, adds) IN
       /\ by_url = db.by_url
       /\ by_alturl = db.by_alturl
  /\ \E infos \in SeqsUpTo(PlaceInputs, 3) : by_uuid = PutAll(<<>>, infos)
  /\ rwDb = "imagesets"
  /\ todo = {}
  /\ freshLoad = FALSE
  /\ lastAdd = NoAdd
  /\ items = <<>>
  /\ cur = 0
  /\ filenames = <<>>
  /\ fidx = 0
  /\ attempt = 0
  /\ cx_img_id = 0
  /\ remove_ids = {}
  /\ catfile_prepends = <<>>
  /\ raised = "none"
  /\ lastOp = "none"
  /\ by_handle = [h \in Handles |-> <<>>]
  /\ hq = <<>>
  /\ cur_items = <<>>
  /\ new_items = <<>>
  /\ idx = 0
  /\ imgids_by_url = {}

\* idb.rewrite() and pdb.rewrite() are called once more, nothing having
\* touched the databases in memory
RewriteAgain ==
  /\ pc = "again"
  /\ "second" \notin flushed
  /\ flushed' = flushed \cup {"second"}
  /\ pc' = "rw_mkdir"
  /\ rwDb' = "imagesets"
  /\ UNCHANGED <<cmd, outcome, killPoint, kills, runs, by_url, by_alturl, by_uuid, disk, todo,
                 oldSet, newSet, freshLoad, lastAdd, pipeState, pipeMem, prepState, prepMem>>

\* the process ends after the second pair of rewrites
TwiceExit ==
  /\ pc = "again"
  /\ "second" \in flushed
  /\ Exit("ok")
  /\ UNCHANGED <<flushed, disk, oldSet, newSet, pipeState, prepState>>

TwiceNext ==
  \/ RewriteNext
  \/ RewriteAgain
  \/ TwiceExit

\* both databases rewritten twice in succession from unchanged memory
SpecTwice == TwiceInit /\ [][TwiceNext]_vars

\* ------------------------------------ the order of places in a shard
\* places of one shard (ra01): two that show image 1, one that shows the
\* image whose URL is that of image 1 plus a character, one without image
SortInputs == {MkPlace(1, 1), MkPlace(25, 1), MkPlace(73, 2), MkPlace(49, 0)}

\* a process holds places inserted in some order and is about to rewrite
SortInit ==
  /\ NoPipeline
  /\ NoPrep
  /\ DiskHolds({MkImageSet(MaxUrl, 0)}, <<MkPlace(1, MaxUrl)>>)
  /\ pc = "rw_mkdir"
  /\ cmd = "rewrite_twice"
  /\ outcome = "none"
  /\ killPoint = "none"
  /\ kills = 0
  /\ runs = 1
  /\ flushed = {}
  /\ \E adds \in SeqsUpTo(ImageSets, 2) :
       LET db == AddAll(EmptyIdb, adds) IN
       /\ by_url = db.by_url
       /\ by_alturl = db.by_alturl
  /\ \E infos \in SeqsUpTo(SortInputs, 3) : by_uuid = PutAll(<<>>, infos)
  /\ rwDb = "imagesets"
  /\ todo = {}
  /\ freshLoad = FALSE
  /\ lastAdd = NoAdd
  /\ items = <<>>
  /\ cur = 0
  /\ filenames = <<>>
  /\ fidx = 0
  /\ attempt = 0
  /\ cx_img_id = 0
  /\ remove_ids = {}
  /\ catfile_prepends = <<>>
  /\ raised = "none"
  /\ lastOp = "none"
  /\ by_handle = [h \in Handles |-> <<>>]
  /\ hq = <<>>
  /\ cur_items = <<>>
  /\ new_items = <<>>
  /\ idx = 0
  /\ imgids_by_url = {}

\* the rewrites of a database of places that share a shard
SpecSort == SortInit /\ [][TwiceNext]_vars

\* ------------------------------------------------ ingest_place
\* a Place child of the ingested folder: each of its three image sets is an
\* ImageSet or None (url 0)
NoImageSet == MkImageSet(0, 0)

PlaceChildren ==
  {[image_set |-> a, foreground_image_set |-> b, background_image_set |-> c] :
     a, b, c \in {NoImageSet} \cup ImageSets}

\* an ingest that stores the urls of the records the place came with
IngestPlaceKeepsOfferedUrl(by_uuid_, db, place, new_id) ==
  LET r1 == IF place.image_set # NoImageSet
            THEN AddImageset(db, place.image_set) ELSE [db |-> db, ret |-> NoImageSet]
      r2 == IF place.foreground_image_set # NoImageSet
            THEN AddImageset(r1.db, place.foreground_image_set)
            ELSE [db |-> r1.db, ret |-> NoImageSet]
      r3 == IF place.background_image_set # NoImageSet
            THEN AddImageset(r2.db, place.background_image_set)
            ELSE [db |-> r2.db, ret |-> NoImageSet]
  IN [db |-> r3.db,
      by_uuid |-> Append(by_uuid_,
        [MkPlace(new_id, place.image_set.url)
           EXCEPT !.foreground_image_set_url = place.foreground_image_set.url,
                  !.background_image_set_url = place.background_image_set.url])]

\* PlaceDatabase.ingest_place(place, idb): the three image sets go through
\* idb.add_imageset in the order image_set, foreground, background, the place
\* keeps what each call returns, and the info dict stored under the new uuid
\* carries the urls of those records
IngestPlace(by_uuid_, db, place, new_id) ==
  LET r1 == IF place.image_set # NoImageSet
            THEN AddImageset(db, place.image_set) ELSE [db |-> db, ret |-> NoImageSet]
      r2 == IF place.foreground_image_set # NoImageSet
            THEN AddImageset(r1.db, place.foreground_image_set)
            ELSE [db |-> r1.db, ret |-> NoImageSet]
      r3 == IF place.background_image_set # NoImageSet
            THEN AddImageset(r2.db, place.background_image_set)
            ELSE [db |-> r2.db, ret |-> NoImageSet]
  IN [db |-> r3.db,
      by_uuid |-> Append(by_uuid_,
        [MkPlace(new_id, r1.ret.url)
           EXCEPT !.foreground_image_set_url = r2.ret.url,
                  !.background_image_set_url = r3.ret.url])]

\* uuid.uuid4(): an id no place of the database carries
NewUuid(by_uuid_) == 100 + Len(by_uuid_)

\* folder_to_yaml: pid = pdb.ingest_place(c, idb) for a Place child
IngestAddPlace ==
  /\ pc = "main"
  /\ cmd = "ingest"
  /\ Len(by_uuid) < 1 + MaxPlaces
  /\ \E place \in PlaceChildren :
       LET r == IngestPlace(by_uuid, [by_url |-> by_url, by_alturl |-> by_alturl],
                            place, NewUuid(by_uuid)) IN
       /\ by_url' = r.db.by_url
       /\ by_alturl' = r.db.by_alturl
       /\ by_uuid' = r.by_uuid
  /\ freshLoad' = FALSE
  /\ lastAdd' = NoAdd
  /\ UNCHANGED <<procVars, disk, rwDb, todo, oldSet, newSet,
                 pipeState, pipeMem, prepState, prepMem>>

IngestNext ==
  \/ IngestStart
  \/ IngestImageset
  \/ IngestAddPlace

\* one cattool.py ingest run over a folder of image sets and places, up to
\* its rewrites
SpecIngest == DbInit /\ [][IngestNext]_vars

\* ------------------------------------------------ reconst_by_id
\* PlaceDatabase.reconst_by_id(pid, idb) on the info dict: the three image
\* references are resolved in the order of the code (background, foreground,
\* image_set); idb.get_by_url is self.by_url[url] and raises KeyError
ReconstById(info, by_url_) ==
  LET bg == info.background_image_set_url
      fg == info.foreground_image_set_url
      im == info.image_set_url
  IN IF bg # 0 /\ ~HasUrl(by_url_, bg) THEN [err |-> "KeyError", url |-> bg]
     ELSE IF fg # 0 /\ ~HasUrl(by_url_, fg)
          THEN [err |-> "Exception: FG imageset URL not found in place", url |-> fg]
     ELSE IF im # 0 /\ ~HasUrl(by_url_, im) THEN [err |-> "KeyError", url |-> im]
     ELSE [err |-> "ok", url |-> 0]

\* a process holds an image database built by insertions and one place
\* whose references were read from the places directory, and is about to
\* call pdb.reconst_by_id on it
ReconstInit ==
  /\ NoPipeline
  /\ NoPrep
  /\ DiskHolds({MkImageSet(MaxUrl, 0)}, <<MkPlace(1, MaxUrl)>>)
  /\ pc = "reconst"
  /\ cmd = "reconst"
  /\ outcome = "none"
  /\ killPoint = "none"
  /\ kills = 0
  /\ runs = 1
  /\ flushed = {}
  /\ \E adds \in SeqsUpTo(ImageSets, 2) :
       LET db == AddAll(EmptyIdb, adds) IN
       /\ by_url = db.by_url
       /\ by_alturl = db.by_alturl
  /\ \E im, fg, bg \in {0} \cup Urls :
       by_uuid = <<[MkPlace(1, im) EXCEPT !.foreground_image_set_url = fg,
                                         !.background_image_set_url = bg]>>
  /\ rwDb = "none"
  /\ todo = {}
  /\ freshLoad = FALSE
  /\ lastAdd = NoAdd
  /\ items = <<>>
  /\ cur = 0
  /\ filenames = <<>>
  /\ fidx = 0
  /\ attempt = 0
  /\ cx_img_id = 0
  /\ remove_ids = {}
  /\ catfile_prepends = <<>>
  /\ raised = "none"
  /\ lastOp = "none"
  /\ by_handle = [h \in Handles |-> <<>>]
  /\ hq = <<>>
  /\ cur_items = <<>>
  /\ new_items = <<>>
  /\ idx = 0
  /\ imgids_by_url = {}

\* the call: the place comes back, or the exception leaves the caller
ReconstCall ==
  /\ pc = "reconst"
  /\ Exit(ReconstById(by_uuid[1], by_url).err)
  /\ UNCHANGED <<flushed, disk, oldSet, newSet, pipeState, prepState>>

ReconstNext == ReconstCall

SpecReconst == ReconstInit /\ [][ReconstNext]_vars

\* ------------------------------- pipeline.py and process_todos()
\* the image sources: the candidates query_candidates() yields, in order,
\* and those among them whose save() raises NotActionableError; with them
\* the configuration of the session: astropix_publisher_id is unset, or it
\* is set and astropix/all.json is missing
Sources ==
  {[feed |-> f, bad |-> b, astropix |-> a] :
     f \in SeqsUpTo(Items, NItems), b \in SUBSET Items, a \in {"unset", "missing"}}

\* seen_idb of refresh_impl: the items the image records cross-reference
SeenIdb(by_url_) == {r.corepipe_ids : r \in {q \in by_url_ : q.corepipe_ids # 0}}

RECURSIVE RefreshLoopNoSkip(_, _, _, _, _)
\* a candidate loop that does not look for skip.flag
RefreshLoopNoSkip(feed, seen_idb, remote_, bad, work_) ==
  IF Len(feed) = 0 THEN [work |-> work_, how |-> "ok"]
  ELSE LET uniq_id == Head(feed) IN
       IF uniq_id \in seen_idb \/ "index.wtml" \in remote_[uniq_id]
       THEN RefreshLoopNoSkip(Tail(feed), seen_idb, remote_, bad, work_)
       ELSE IF uniq_id \in bad
       THEN [work |-> [work_ EXCEPT ![uniq_id] = @ \ {"candidates"}],
             how |-> IF "rejects" \in work_[uniq_id]
                     THEN "NotADirectoryError" ELSE "FileNotFoundError"]
       ELSE RefreshLoopNoSkip(Tail(feed), seen_idb, remote_, bad,
                              [work_ EXCEPT ![uniq_id] = @ \cup {"candidates"}])

RECURSIVE RefreshLoop(_, _, _, _, _)
\* the candidate loop of refresh_impl over the rest of the feed: the working
\* directory it leaves, and how the command ends. A candidate that is not
\* actionable has its file removed, and then rejects/<id>/wb is opened for
\* reading: no such file, or rejects/<id> is a file that fetch moved there.
RefreshLoop(feed, seen_idb, remote_, bad, work_) ==
  IF Len(feed) = 0 THEN [work |-> work_, how |-> "ok"]
  ELSE LET uniq_id == Head(feed) IN
       IF \/ uniq_id \in seen_idb
          \/ "index.wtml" \in remote_[uniq_id]
          \/ "skip.flag" \in remote_[uniq_id]
       THEN RefreshLoop(Tail(feed), seen_idb, remote_, bad, work_)
       ELSE IF uniq_id \in bad
       THEN [work |-> [work_ EXCEPT ![uniq_id] = @ \ {"candidates"}],
             how |-> IF "rejects" \in work_[uniq_id]
                     THEN "NotADirectoryError" ELSE "FileNotFoundError"]
       ELSE RefreshLoop(Tail(feed), seen_idb, remote_, bad,
                        [work_ EXCEPT ![uniq_id] = @ \cup {"candidates"}])

\* what the pipeline commands leave alone: the databases of cattool, the
\* remote registrations, the catalog file
PipeFrame == UNCHANGED <<dbVars, stage, source, catfile, imgRegs, sceneRegs, indexPuts,
                         aborted, prepState>>

\* a command that runs from start to end in one step and ends as `how`
Whole(c, how) ==
  /\ pc = "idle"
  /\ pc' = "idle"
  /\ cmd' = c
  /\ outcome' = how
  /\ killPoint' = IF outcome # "none" THEN "none" ELSE killPoint
  /\ runs' = IF runs < MaxRuns THEN runs + 1 ELSE runs
  /\ UNCHANGED <<kills, flushed, pipeMem, prepMem>>
  /\ PipeFrame

\* pipeline.py refresh
Refresh ==
  \E io \in Perms(disk.imagesets.live.files) :
    LET r == RefreshLoop(source.feed, SeenIdb(LoadImagesets(io).by_url), remote,
                         source.bad, work) IN
    /\ Whole("refresh", r.how)
    /\ work' = r.work
    /\ UNCHANGED <<prep, itemFiles, remote>>

\* pipeline.py fetch <cid>: the candidate file is opened, cache_todo/<cid>
\* is made and src.fetch_candidate fills it; on NotActionableError the
\* candidate moves to rejects/ and os.rmdir(cachedir) follows, which raises
\* OSError unless the directory is empty
Fetch ==
  \E cid \in Items, res \in {"done", "not usable", "not usable, partly fetched"} :
    IF "candidates" \notin work[cid]
    THEN /\ res = "done"
         /\ Whole("fetch", "SystemExit")
         /\ UNCHANGED <<prep, work, itemFiles, remote>>
    ELSE IF res = "done"
    THEN /\ Whole("fetch", "ok")
         /\ work' = [work EXCEPT ![cid] = @ \cup {"cache_todo"}]
         /\ UNCHANGED <<prep, itemFiles, remote>>
    ELSE LET empty == res = "not usable" /\ "cache_todo" \notin work[cid] IN
         /\ Whole("fetch", IF empty THEN "ok" ELSE "OSError")
         /\ work' = [work EXCEPT ![cid] =
                       ((@ \ {"candidates"}) \cup {"rejects"})
                         \cup (IF empty THEN {} ELSE {"cache_todo"})]
         /\ UNCHANGED <<prep, itemFiles, remote>>

\* PipelineManager.ignore_rejects: skip.flag is put for every entry of
\* rejects/, in the order of the listing; the listing raises when no
\* command has made the directory. LocalPipelineIo.put_item overwrites;
\* AzureBlobPipelineIo.put_item is upload_blob(source), which raises
\* ResourceExistsError when the blob exists, and the loop ends there
IgnoreRejects ==
  \E made \in BOOLEAN, azure \in BOOLEAN :
    \E order \in Perms({i \in Items : "rejects" \in work[i]}) :
      LET clash == {n \in 1..Len(order) : azure /\ "skip.flag" \in remote[order[n]]}
          last == IF clash = {} THEN Len(order)
                  ELSE (CHOOSE n \in clash : \A m \in clash : n <= m) - 1
      IN /\ ~made => Len(order) = 0
         /\ Whole("ignore_rejects", IF ~made THEN "FileNotFoundError"
                                    ELSE IF clash # {} THEN "ResourceExistsError" ELSE "ok")
         /\ remote' = [i \in Items |->
                         IF \E n \in 1..last : order[n] = i
                         THEN remote[i] \cup {"skip.flag"} ELSE remote[i]]
         /\ UNCHANGED <<prep, work, itemFiles>>

\* what a step of process_todos leaves alone
TodosFrame ==
  /\ UNCHANGED <<cmd, outcome, killPoint, kills, runs, flushed, cur, attempt, cx_img_id,
                 remove_ids, catfile_prepends, raised, lastOp, prepMem, prep, remote>>
  /\ PipeFrame

\* process_todos up to its loop: prep_items = [] and os.listdir of
\* cache_todo/, a directory that fetch makes
TodosStart ==
  /\ source.astropix # "missing"
  /\ \E i \in Items : work[i] \cap {"cache_todo", "cache_done", "rejects"} # {}
  /\ StartProcess("process_todos", "pt_item")
  /\ \E order \in Perms({i \in Items : "cache_todo" \in work[i]}) : filenames' = order
  /\ fidx' = 1
  /\ items' = <<>>
  /\ UNCHANGED <<cur, attempt, cx_img_id, remove_ids, catfile_prepends, raised, lastOp,
                 prepMem, prep, work, itemFiles, remote>>
  /\ PipeFrame

\* astropix_publisher_id is set and astropix/all.json cannot be opened: the
\* except clause warns, and `for item in ap_all` reads a name that was
\* never bound
TodosUnbound ==
  /\ source.astropix = "missing"
  /\ Whole("process_todos", "UnboundLocalError")
  /\ UNCHANGED <<prep, work, itemFiles, remote>>

\* the listing fails: no fetch has made cache_todo/ (fetch leaves an entry
\* in cache_todo/ or rejects/, and process_todos moves it to cache_done/)
TodosNoDir ==
  /\ source.astropix # "missing"
  /\ \A i \in Items : work[i] \cap {"cache_todo", "cache_done", "rejects"} = {}
  /\ Whole("process_todos", "FileNotFoundError")
  /\ UNCHANGED <<prep, work, itemFiles, remote>>

\* one turn of the loop up to the rename: candidates/<id> is opened and
\* src.process and the builder write the tiles into processed/<id>
TodosProcess ==
  /\ pc = "pt_item"
  /\ fidx <= Len(filenames)
  /\ LET uniq_id == filenames[fidx] IN
     IF "candidates" \notin work[uniq_id]
     THEN /\ Exit("FileNotFoundError")
          /\ UNCHANGED <<flushed, disk, oldSet, newSet, pipeState, prepState>>
     ELSE /\ pc' = "pt_rename"
          /\ work' = [work EXCEPT ![uniq_id] = @ \cup {"processed"}]
          /\ itemFiles' = [itemFiles EXCEPT ![uniq_id] = ProcessedFiles]
          /\ UNCHANGED <<items, filenames, fidx>>
          /\ TodosFrame

\* os.rename(cachedir, cache_done/<id>), which raises OSError when an
\* earlier run left a cache_done/<id> with files in it, and the record
\* appended to prep_items
TodosRename ==
  /\ pc = "pt_rename"
  /\ LET uniq_id == filenames[fidx] IN
     IF "cache_done" \in work[uniq_id]
     THEN /\ Exit("OSError")
          /\ UNCHANGED <<flushed, disk, oldSet, newSet, pipeState, prepState>>
     ELSE /\ pc' = "pt_item"
          /\ work' = [work EXCEPT ![uniq_id] = (@ \ {"cache_todo"}) \cup {"cache_done"}]
          /\ items' = Append(items, [corepipe_id |-> uniq_id, wip |-> TRUE])
          /\ fidx' = fidx + 1
          /\ UNCHANGED <<itemFiles, filenames>>
          /\ TodosFrame

\* after the loop prep.txt is opened for writing and prep_items is written
TodosWritePrep ==
  /\ pc = "pt_item"
  /\ fidx > Len(filenames)
  /\ prep' = items
  /\ Exit("ok")
  /\ UNCHANGED <<flushed, disk, oldSet, newSet, stage, work, source, itemFiles, remote,
                 catfile, imgRegs, sceneRegs, indexPuts, aborted, prepState>>

\* a working directory that `init` has just made; the image database may
\* hold the record an earlier session's upload made for item 1, and the
\* remote storage may hold, for some item, an index.wtml uploaded by other
\* means or a skip.flag
PipeInit ==
  /\ IdleInit
  /\ NoPrep
  /\ \E done \in BOOLEAN :
       IF done
       THEN DiskHolds({ItemImageSet(1, RemoteId(1))}, <<ItemPlace(1, RemoteId(1))>>)
       ELSE DiskHolds({}, <<>>)
  /\ prep = <<>>
  /\ stage = [i \in Items |-> "none"]
  /\ work = [i \in Items |-> {}]
  /\ source \in Sources
  /\ itemFiles = [i \in Items |-> {}]
  /\ remote \in [Items -> {{}, {"index.wtml"}, {"skip.flag"}}]
  /\ catfile = <<>>
  /\ imgRegs = [i \in Items |-> 0]
  /\ sceneRegs = [i \in Items |-> 0]
  /\ indexPuts = [i \in Items |-> 0]
  /\ aborted = "none"

PipeNext ==
  \/ Refresh
  \/ Fetch
  \/ IgnoreRejects
  \/ TodosStart
  \/ TodosNoDir
  \/ TodosUnbound
  \/ TodosProcess
  \/ TodosRename
  \/ TodosWritePrep
  \/ Kill

\* refresh, fetch and ignore-rejects on a working directory whose session
\* has no astropix_publisher_id
IgnoreInit == PipeInit /\ source.astropix = "unset"

IgnoreNext ==
  \/ Refresh
  \/ Fetch
  \/ IgnoreRejects

SpecIgnore == IgnoreInit /\ [][IgnoreNext]_vars

\* the commands of pipeline.py on one working directory, one at a time,
\* process_todos being killed at most MaxKills times
SpecPipe == PipeInit /\ [][PipeNext]_vars

\* ------------------------------------------ update-cxprep (cattool.py)
\* the handles images are queued under
UpdHandles == {"h1", "h2"}

\* cxs[6:] of a "queue:<handle>" status
HandleOf(cxs) == IF cxs.val = 1 THEN "h1" ELSE "h2"

\* the items update() appends
ImageItem(u) ==
  [kind |-> "image", url |-> u, place_uuid |-> 0, copyright |-> "~~COPYRIGHT~~",
   license_id |-> "~~LICENSE~~", wip |-> TRUE]
SceneItem(pid, u) == [kind |-> "scene", url |-> u, place_uuid |-> pid, wip |-> TRUE]

\* every item of every queue
QueueItems(by_handle_) ==
  UNION {{by_handle_[h][k] : k \in 1..Len(by_handle_[h])} : h \in DOMAIN by_handle_}

\* done_imageset_urls: logged as "in:", or already in one of the prep files
DoneImagesetUrls(imgs, by_handle_) ==
  {r.url : r \in {q \in imgs : q.cxstatus.tag = "in"}}
    \cup {e.url : e \in {x \in QueueItems(by_handle_) : x.kind = "image"}}

\* done_place_uuids: update() builds this set and never reads it
DonePlaceUuids(infos, by_handle_) ==
  {infos[k].uuid : k \in {j \in 1..Len(infos) : infos[j].cxstatus.tag = "in"}}
    \cup {e.place_uuid : e \in {x \in QueueItems(by_handle_) : x.kind = "scene"}}

\* a to-do list that takes images of every data set type
TodoImageUrlsAnyType(imgs, by_handle_, h) ==
  {r.url : r \in {q \in imgs :
     /\ q.url \notin DoneImagesetUrls(imgs, by_handle_)
     /\ q.cxstatus.tag = "queue"
     /\ HandleOf(q.cxstatus) = h}}

\* todo_image_urls_by_handle[h]
TodoImageUrls(imgs, by_handle_, h) ==
  {r.url : r \in {q \in imgs :
     /\ q.data_set_type = "Sky"
     /\ q.url \notin DoneImagesetUrls(imgs, by_handle_)
     /\ q.cxstatus.tag = "queue"
     /\ HandleOf(q.cxstatus) = h}}

\* the image fields of a place, in the order update() reads them (0 is None)
RefUrls(pinfo) ==
  <<pinfo.image_set_url, pinfo.foreground_image_set_url, pinfo.background_image_set_url>>

\* the positions of RefUrls(pinfo) that name a to-do image
Matches(pinfo, todoUrls) == {k \in 1..3 : RefUrls(pinfo)[k] # 0 /\ RefUrls(pinfo)[k] \in todoUrls}

\* matched_url: the first image field that names a to-do image
MatchedUrl(pinfo, todoUrls) ==
  RefUrls(pinfo)[CHOOSE k \in Matches(pinfo, todoUrls) : \A j \in Matches(pinfo, todoUrls) : k <= j]

\* the test that opens the places loop reads `imgset`, which the loop over
\* idb.by_url before it left bound to the record it visited last
PlacesSkippedBy(imgset) == imgset.cxstatus.tag \in {"in", "skip"}

RECURSIVE SortedNums(_)
\* sorted(S) for a set of numbers
SortedNums(S) ==
  IF S = {} THEN <<>>
  ELSE LET m == CHOOSE x \in S : \A y \in S : x <= y IN <<m>> \o SortedNums(S \ {m})

RECURSIVE EmitImages(_, _, _, _)
\* the loop over sorted(imgurls) of one handle: the image item, then a scene
\* for each of pids_by_image_url[url] still in todo_places (`order` is the
\* order in which the sets of uuids are walked)
EmitImages(urls, left, pidsBy, order) ==
  IF Len(urls) = 0 THEN [items |-> <<>>, left |-> left]
  ELSE LET u == Head(urls)
           Emitted(p) == p \in pidsBy[u] /\ p \in left
           pids == SelectSeq(order, Emitted)
           rest == EmitImages(Tail(urls), left \ pidsBy[u], pidsBy, order)
       IN [items |-> <<ImageItem(u)>> \o [k \in 1..Len(pids) |-> SceneItem(pids[k], u)]
                       \o rest.items,
           left |-> rest.left]

\* ConstellationsPrepDatabase.update(idb, pdb): `imgs` is idb.by_url, `last`
\* the record its loops visit last, `infos` is pdb.by_uuid
Update(imgs, last, infos, by_handle_, order) ==
  LET todo_(h) == TodoImageUrls(imgs, by_handle_, h)
      todoUrls == UNION {todo_(h) : h \in UpdHandles}
      handleOfUrl(u) == CHOOSE h \in UpdHandles : u \in todo_(h)
      seen == IF PlacesSkippedBy(last) THEN {}
              ELSE {k \in 1..Len(infos) : Matches(infos[k], todoUrls) # {}}
      pidsBy == [u \in todoUrls |->
                   {infos[k].uuid : k \in {j \in seen : \E f \in Matches(infos[j], todoUrls) :
                                                          RefUrls(infos[j])[f] = u}}]
      matched(pid) == LET k == CHOOSE j \in seen : infos[j].uuid = pid
                      IN MatchedUrl(infos[k], todoUrls)
      todo_places(h) == {infos[k].uuid : k \in {j \in seen :
                           handleOfUrl(MatchedUrl(infos[j], todoUrls)) = h}}
      emit(h) == EmitImages(SortedNums(todo_(h)), todo_places(h), pidsBy, order)
      mop(h) == LET pids == SortedNums(emit(h).left)
                IN [k \in 1..Len(pids) |-> SceneItem(pids[k], matched(pids[k]))]
  IN [h \in UpdHandles |-> by_handle_[h] \o emit(h).items \o mop(h)]

\* a catalog image with a status
WithStatus(u, cxs) == [MkImageSet(u, 0) EXCEPT !.cxstatus = cxs]

\* the statuses an image of the catalog can carry
ImageStatuses ==
  {NoStatus, [tag |-> "queue", val |-> 1], [tag |-> "queue", val |-> 2],
   [tag |-> "skip", val |-> 0], [tag |-> "in", val |-> 7]}

\* the catalogs update-cxprep can find: two Sky images with any status or
\* missing, and a planetary image that is queued, registered or missing
UpdCatalogs ==
  {a \cup b \cup c :
     a \in {{}} \cup {{WithStatus(1, s)} : s \in ImageStatuses},
     b \in {{}} \cup {{WithStatus(2, s)} : s \in ImageStatuses},
     c \in {{}, {WithStatus(3, [tag |-> "queue", val |-> 1])},
            {WithStatus(3, [tag |-> "in", val |-> 8])}}}

\* the places: one that shows image 1 (alone, over foreground 2, or already
\* registered) and one that names its image in another field
UpdPlaceLists ==
  LET first == {MkPlace(1, 1),
                [MkPlace(1, 1) EXCEPT !.foreground_image_set_url = 2],
                [MkPlace(1, 1) EXCEPT !.cxstatus = [tag |-> "in", val |-> 9]]}
      second == {[MkPlace(2, 0) EXCEPT !.background_image_set_url = 1], MkPlace(2, 2)}
  IN {<<>>} \cup {<<p>> : p \in first \cup second}
       \cup {<<p, q>> : p \in first, q \in second}

\* the ledgers update-cxprep can find: nothing yet, or what an earlier run
\* and the human editor left
UpdLedgers ==
  {[h \in UpdHandles |-> <<>>],
   [h \in UpdHandles |-> IF h = "h1" THEN <<[ImageItem(1) EXCEPT !.wip = FALSE]>> ELSE <<>>],
   [h \in UpdHandles |-> IF h = "h2" THEN <<ImageItem(1), SceneItem(1, 1)>> ELSE <<>>]}

\* do_update_cxprep up to the return of update(): the three databases are
\* loaded and update() fills the queues in memory; it raises at the places
\* loop when there are places and idb.by_url held no record to bind `imgset`
UpdRun ==
  /\ StartProcess("update_cxprep", "upd_prep")
  /\ \E io \in Perms(disk.imagesets.live.files), po \in Perms(disk.places.live.files) :
       LET db == LoadImagesets(io)
           imgs == Flatten(io)
           infos == LoadPlaces(po)
       IN /\ by_url' = db.by_url
          /\ by_alturl' = db.by_alturl
          /\ by_uuid' = infos
          /\ IF Len(imgs) = 0 /\ Len(infos) > 0
             THEN /\ raised' = "UnboundLocalError"
                  /\ by_handle' = cxprep
             ELSE /\ raised' = "none"
                  /\ \E order \in Perms({infos[k].uuid : k \in 1..Len(infos)}) :
                       by_handle' =
                         IF Len(imgs) = 0 THEN cxprep
                         ELSE Update(db.by_url, imgs[Len(imgs)], infos, cxprep, order)
  /\ freshLoad' = TRUE
  /\ UNCHANGED <<disk, rwDb, todo, oldSet, newSet, lastAdd, pipeState, prepState,
                 items, cur, filenames, fidx, attempt, cx_img_id, remove_ids,
                 catfile_prepends, lastOp, hq, cur_items, new_items, idx, imgids_by_url>>

\* cxpdb.rewrite(): every queue is written to its file, and the command
\* returns; an exception out of update() ends the command before it
UpdRewritePrep ==
  /\ pc = "upd_prep"
  /\ IF raised = "none"
     THEN /\ cxprep' = by_handle
          /\ flushed' = flushed \cup {"cxprep"}
          /\ Exit("ok")
     ELSE /\ cxprep' = cxprep
          /\ flushed' = flushed
          /\ Exit(raised)
  /\ UNCHANGED <<disk, oldSet, newSet, pipeState, regCalls, exhausted>>

UpdInit ==
  /\ IdleInit
  /\ NoPipeline
  /\ \E c \in UpdCatalogs, pl \in UpdPlaceLists : DiskHolds(c, pl)
  /\ cxprep \in UpdLedgers
  /\ regCalls = [image |-> [u \in Urls |-> 0], scene |-> [u \in Urls |-> 0]]
  /\ exhausted = {}

UpdNext ==
  \/ UpdRun
  \/ UpdRewritePrep

\* cattool.py update-cxprep, run again and again over one catalog
SpecUpdate == UpdInit /\ [][UpdNext]_vars

\* ----------------------------------- the ledger file format (cattool.py)
\* A line of text is the sequence of its whitespace-separated words
\* (line.split()); a word is its text without the marker character, its
\* length with it, and the marker: e = "at" for a leading "@", "colon" and
\* "gt" for a trailing ":" and ">", "sep" for the word "---".
Word(t, n, e) == [t |-> t, n |-> n, e |-> e]

Blank == <<>>
SepLine == <<Word("---", 3, "sep")>>
KeyLen(key) == CASE key = "text" -> 4 [] key = "credits" -> 7 [] key = "url" -> 3 [] OTHER -> 3

\* the words a field value is made of: a short and a long plain word, and
\* words that end in ":" and in ">"
ValueWords ==
  {Word("w", 5, "plain"), Word("W", 70, "plain"), Word("Credit", 7, "colon"),
   Word("a", 2, "gt")}

\* the values: up to MaxWords words
Values == UNION {[1..k -> ValueWords] : k \in 0..MaxWords}

RECURSIVE WrapFrom(_, _, _)
\* textwrap.wrap(text, width=80, break_long_words=False,
\* break_on_hyphens=False): words fill a line while they fit, a word longer
\* than the width stands on a line of its own
WrapFrom(words, line, len) ==
  IF Len(words) = 0 THEN (IF Len(line) = 0 THEN <<>> ELSE <<line>>)
  ELSE LET w == Head(words) IN
       IF Len(line) = 0 THEN WrapFrom(Tail(words), <<w>>, w.n)
       ELSE IF len + 1 + w.n <= WrapWidth
            THEN WrapFrom(Tail(words), Append(line, w), len + 1 + w.n)
            ELSE <<line>> \o WrapFrom(words, <<>>, 0)

\* a wrap that starts every line after the first with a plain word, pulled
\* down from the line before where the greedy filling would not
RECURSIVE WrapFromKeepingMarkersInside(_, _, _)
WrapFromKeepingMarkersInside(words, line, len) ==
  IF Len(words) = 0 THEN (IF Len(line) = 0 THEN <<>> ELSE <<line>>)
  ELSE LET w == Head(words) IN
       IF Len(line) = 0 THEN WrapFromKeepingMarkersInside(Tail(words), <<w>>, w.n)
       ELSE IF len + 1 + w.n <= WrapWidth \/ w.e # "plain"
            THEN WrapFromKeepingMarkersInside(Tail(words), Append(line, w), len + 1 + w.n)
            ELSE <<line>> \o WrapFromKeepingMarkersInside(words, <<>>, 0)

RECURSIVE EmitFields(_)
\* the loop of _emit_record over fields.items()
EmitFields(fields) ==
  IF Len(fields) = 0 THEN <<>>
  ELSE LET key == Head(fields)[1]
           value == Head(fields)[2]
       IN (IF key \in {"text", "credits"}
           THEN <<Blank>> \o WrapFrom(<<Word(key, KeyLen(key) + 1, "gt")>> \o value, <<>>, 0)
                  \o <<Blank>>
           ELSE <<<<Word(key, KeyLen(key) + 1, "colon")>> \o value>>)
          \o EmitFields(Tail(fields))

\* _emit_record(kind, fields, stream): the lines it prints
EmitRecord(item) ==
  <<Blank, <<Word(item.kind, 6, "at")>>>> \o EmitFields(item.fields) \o <<SepLine>>

RECURSIVE EmitRecords(_)
\* ConstellationsPrepDatabase.rewrite for one handle
EmitRecords(recs) ==
  IF Len(recs) = 0 THEN <<>> ELSE EmitRecord(Head(recs)) \o EmitRecords(Tail(recs))

\* fields[key] = value on an OrderedDict: a key already there keeps its place
FieldPut(fields, key, value) ==
  IF \E k \in 1..Len(fields) : fields[k][1] = key
  THEN [k \in 1..Len(fields) |-> IF fields[k][1] = key THEN <<key, value>> ELSE fields[k]]
  ELSE Append(fields, <<key, value>>)

\* the messages die() prints before sys.exit (without the quoting of the
\* path and the echo of the line)
ExpectedAt(n, path) == "expected @ indicator at line " \o ToString(n) \o " of " \o path
ExpectedIndicator(n, path) ==
  "expected : or > indicator at line " \o ToString(n) \o " of " \o path
MustEnd(path) == "file " \o path \o " must end with an end-of-record indicator (---)"

\* the pending multi-line field is stored
FlushMultiline(st) ==
  IF st.mkey # "none"
  THEN [st EXCEPT !.fields = FieldPut(st.fields, st.mkey, st.mwords),
                  !.mkey = "none", !.mwords = <<>>]
  ELSE st

RECURSIVE ParseFrom(_, _, _, _)
\* the loop of _parse_record_file from line i on; st holds kind, fields,
\* multiline_key, multiline_words and the records yielded so far
ParseFrom(lines, i, st, path) ==
  IF i > Len(lines)
  THEN [items |-> st.out,
        err |-> IF st.kind # "none" \/ Len(st.fields) > 0 \/ st.mkey # "none"
                THEN MustEnd(path) ELSE "none"]
  ELSE LET line == lines[i] IN
       IF Len(line) = 0 THEN ParseFrom(lines, i + 1, st, path)
       ELSE IF st.kind = "none"
            THEN IF line[1].e = "at"
                 THEN ParseFrom(lines, i + 1, [st EXCEPT !.kind = line[1].t], path)
                 ELSE [items |-> st.out, err |-> ExpectedAt(i, path)]
       ELSE IF line = SepLine
            THEN LET f == FlushMultiline(st)
                 IN ParseFrom(lines, i + 1,
                              [kind |-> "none", fields |-> <<>>, mkey |-> "none",
                               mwords |-> <<>>,
                               out |-> Append(st.out, [kind |-> st.kind, fields |-> f.fields])],
                              path)
       ELSE IF line[1].e = "colon"
            THEN LET f == FlushMultiline(st)
                 IN ParseFrom(lines, i + 1,
                              [f EXCEPT !.fields = FieldPut(f.fields, line[1].t, Tail(line))],
                              path)
       ELSE IF line[1].e = "gt"
            THEN LET f == FlushMultiline(st)
                 IN ParseFrom(lines, i + 1,
                              [f EXCEPT !.mkey = line[1].t, !.mwords = Tail(line)], path)
       ELSE IF st.mkey # "none"
            THEN ParseFrom(lines, i + 1, [st EXCEPT !.mwords = st.mwords \o line], path)
       ELSE [items |-> st.out, err |-> ExpectedIndicator(i, path)]

\* list(_parse_record_file(f, path))
ParseRecordFile(lines, path) ==
  ParseFrom(lines, 1, [kind |-> "none", fields |-> <<>>, mkey |-> "none", mwords |-> <<>>,
                       out |-> <<>>], path)

\* the items a process can hold: a kind and an ordered field map with a
\* wrapped field alone, between one-line fields, or ahead of one
LedgerRecords ==
  LET short == <<Word("w", 5, "plain")>>
      maps == {<<>>} \cup {<<<<"text", v>>>> : v \in Values}
                \cup {<<<<"url", short>>, <<"text", v>>, <<"wip", short>>>> : v \in Values}
                \cup {<<<<"credits", v>>, <<"url", short>>>> : v \in Values}
  IN {[kind |-> k, fields |-> f] : k \in {"image", "scene"}, f \in maps}

\* the lines a human editor can type
TypedLines ==
  {Blank, SepLine, <<Word("image", 6, "at")>>,
   <<Word("url", 4, "colon"), Word("w", 5, "plain")>>,
   <<Word("text", 5, "gt"), Word("w", 5, "plain")>>,
   <<Word("w", 5, "plain"), Word("w", 5, "plain")>>}

\* the files a human editor can leave
TypedFiles == UNION {[1..k -> TypedLines] : k \in 0..MaxLines}

LedgerPath == "cxprep/h1.txt"

LedgerFrame ==
  UNCHANGED <<kills, flushed, dbVars, pipeState, pipeMem, regCalls, exhausted,
              hq, cur_items, new_items, idx, imgids_by_url>>

\* a process holds one item in the queue of h1 (cxprep holds, per handle,
\* the lines of its file in this specification)
LedgerInit ==
  /\ NoPipeline
  /\ DiskHolds({}, <<>>)
  /\ pc = "led_mem"
  /\ cmd = "update_cxprep"
  /\ outcome = "none"
  /\ killPoint = "none"
  /\ kills = 0
  /\ runs = 1
  /\ flushed = {}
  /\ by_url = {}
  /\ by_alturl = {}
  /\ by_uuid = <<>>
  /\ rwDb = "none"
  /\ todo = {}
  /\ freshLoad = FALSE
  /\ lastAdd = NoAdd
  /\ items = <<>>
  /\ cur = 0
  /\ filenames = <<>>
  /\ fidx = 0
  /\ attempt = 0
  /\ cx_img_id = 0
  /\ remove_ids = {}
  /\ catfile_prepends = <<>>
  /\ raised = "none"
  /\ lastOp = "none"
  /\ \E item \in LedgerRecords : by_handle = [h \in Handles |-> <<item>>]
  /\ hq = <<>>
  /\ cur_items = <<>>
  /\ new_items = <<>>
  /\ idx = 0
  /\ imgids_by_url = {}
  /\ cxprep = [h \in Handles |-> <<>>]
  /\ regCalls = [image |-> [u \in Urls |-> 0], scene |-> [u \in Urls |-> 0]]
  /\ exhausted = {}

\* cxpdb.rewrite(), after which the command returns
LedgerRewrite ==
  /\ pc = "led_mem"
  /\ cxprep' = [h \in Handles |-> EmitRecords(by_handle[h])]
  /\ flushed' = flushed \cup {"cxprep"}
  /\ Exit("ok")
  /\ UNCHANGED <<disk, oldSet, newSet, pipeState, regCalls, exhausted>>

\* the human editor saves the file of h1
LedgerTyped ==
  /\ pc = "idle"
  /\ \E f \in TypedFiles : cxprep' = [h \in Handles |-> f]
  /\ UNCHANGED <<procVars, dbVars, pipeState, pipeMem, regCalls, exhausted, prepMem>>

\* ConstellationsPrepDatabase(): the file is parsed; die() ends the process
LedgerLoad ==
  /\ pc = "idle"
  /\ LET r == ParseRecordFile(cxprep["h1"], LedgerPath) IN
     IF r.err = "none"
     THEN /\ pc' = "led_mem"
          /\ outcome' = "none"
          /\ by_handle' = [h \in Handles |-> r.items]
     ELSE /\ pc' = "idle"
          /\ outcome' = r.err
          /\ by_handle' = by_handle
  /\ cmd' = "update_cxprep"
  /\ killPoint' = killPoint
  /\ runs' = IF runs < MaxRuns THEN runs + 1 ELSE runs
  /\ cxprep' = cxprep
  /\ LedgerFrame

LedgerNext ==
  \/ LedgerRewrite
  \/ LedgerTyped
  \/ LedgerLoad

\* processes that load the ledger and write it back, and its human editor
SpecLedger == LedgerInit /\ [][LedgerNext]_vars

\* ------------------------------------------------------------------ claims
\* the ledger holds item i back with a wip field
HeldBack(i) == \E k \in 1..Len(prep) : prep[k].corepipe_id = i /\ prep[k].wip

\* the exceptions a failing remote call raises
RemoteErrors == {"OSError", "HTTPError", "ConnectionError"}

\* C1: when the first upload run is killed right after an item's rename into
\* uploaded/ and upload is run again, then once that second run has ended,
\* no remote call of it having failed, every item that was ready has had its
\* image and its scene registered exactly once and its index.wtml put
\* exactly once.
C1_ResumeAfterRenameCompletesOnce ==
  (/\ pc = "idle" /\ cmd = "upload" /\ runs = 2 /\ killPoint = "after_rename"
   /\ outcome # "none" /\ outcome \notin RemoteErrors /\ aborted \notin RemoteErrors)
    => \A i \in Items : ~HeldBack(i) =>
         imgRegs[i] = 1 /\ sceneRegs[i] = 1 /\ indexPuts[i] = 1

\* C2: when an exception has aborted upload()'s item loop, the run does not
\* end before both databases, the catalog documents and the ledger have been
\* written back.
C2_AbortedLoopStillFlushes ==
  (pc = "idle" /\ cmd = "upload" /\ outcome # "none" /\ aborted # "none")
    => flushed = {"imagesets", "places", "catfiles", "prep"}

\* C3: over any number of upload runs, killed or not, no item's image or
\* scene is registered more than once and no item's index.wtml is put more
\* than once.
C3_AtMostOnce ==
  \A i \in Items : imgRegs[i] <= 1 /\ sceneRegs[i] <= 1 /\ indexPuts[i] <= 1

\* C4: the Storage Backend holds an item's index.wtml only when it holds
\* every other file of the item, and the put of index.wtml is the last put
\* of the item's list.
C4_IndexPutLast ==
  /\ [](\A i \in Items : "index.wtml" \in remote[i] => itemFiles[i] \subseteq remote[i])
  /\ [][\A i \in Items : indexPuts'[i] # indexPuts[i] =>
          fidx = Len(filenames) /\ filenames[fidx] = "index.wtml"]_vars

\* an item's index.wtml has been put while a run had other files of it still
\* to list: the listing did not have index.wtml last
C4_Witness ==
  \E i \in Items :
    /\ "index.wtml" \in remote[i]
    /\ pc = "up_put"
    /\ \E k \in 1..(Len(filenames) - 1) : filenames[k] = "thumb.jpg"
    /\ filenames[Len(filenames)] = "index.wtml"
    /\ fidx > Len(filenames)

\* C5: an item moves to uploaded/ only right after the last put of its list
\* has succeeded, with all its files stored; its image is registered only
\* once it is in uploaded/; its scene is registered only with the id the
\* image registration returned; and the databases take its records only
\* after both registrations.
C5_UploadOrdering ==
  /\ [][\A i \in Items : stage'[i] # stage[i] =>
          /\ lastOp = "put"
          /\ fidx = Len(filenames) + 1
          /\ itemFiles[i] \subseteq remote[i]]_vars
  /\ [][\A i \in Items : imgRegs'[i] # imgRegs[i] => stage[i] = "uploaded"]_vars
  /\ [][\A i \in Items : sceneRegs'[i] # sceneRegs[i] =>
          cx_img_id = RemoteId(i) /\ imgRegs[i] > 0]_vars
  /\ [][(cmd = "upload" /\ pc # "idle" /\ (by_url' \ by_url # {} \/ Len(by_uuid') > Len(by_uuid))) =>
          \E i \in Items : sceneRegs'[i] > 0 /\ imgRegs[i] > 0]_vars

\* an item's image has been registered in the run that put its files and
\* renamed it
C5_Witness ==
  /\ pc = "up_regscene"
  /\ runs = 1
  /\ \E i \in Items : /\ stage[i] = "uploaded"
                      /\ imgRegs[i] = 1
                      /\ cx_img_id = RemoteId(i)
                      /\ remote[i] = itemFiles[i]

\* the records held by a set of shard files
RecordsIn(files) == UNION {{f.recs[i] : i \in 1..Len(f.recs)} : f \in files}

\* the record of a ledger item (kind, key) carries an "in:" status, in
\* memory or in the live shard files
StampedIn(e) ==
  IF e[1] = "image"
  THEN \E r \in by_url \cup RecordsIn(disk.imagesets.live.files) :
         r.url = e[2] /\ r.cxstatus.tag = "in"
  ELSE \/ \E k \in 1..Len(by_uuid) : by_uuid[k].uuid = e[2] /\ by_uuid[k].cxstatus.tag = "in"
       \/ \E r \in RecordsIn(disk.places.live.files) : r.uuid = e[2] /\ r.cxstatus.tag = "in"

\* the ledger files hold the item (kind, key)
InLedger(e) ==
  \E h \in Handles : \E k \in 1..Len(cxprep[h]) :
    /\ cxprep[h][k].kind = e[1]
    /\ (IF e[1] = "image" THEN cxprep[h][k].url ELSE cxprep[h][k].place_uuid) = e[2]

\* C6: when every attempt of a remote registration has failed with a
\* connection error, no "in:" status is stamped on the item's record, and
\* the run ends with that error and the item still in its ledger.
C6_ExhaustedRetryIsFatal ==
  \A e \in exhausted :
    /\ ~StampedIn(e)
    /\ pc = "idle" => (outcome = "ConnectionError" /\ InLedger(e))

\* C7 (as stated): at every instant a reader that lists the live directory
\* of a database sees the complete old or the complete new shard set, never a
\* missing directory, an empty directory or a mixture.
C7_ReaderAlwaysSeesCompleteSet ==
  \A db \in DBs :
     /\ disk[db].live.exists
     /\ disk[db].live.files \in {oldSet[db], newSet[db]}

\* C7 (amended): a reader sees the complete old shard set, the complete new
\* shard set, or no live directory at all; the live directory is missing only
\* between the two renames (or after a kill there), when the old set is
\* complete under .old and the new set complete under .new. It never sees an
\* incomplete set.
C7_ReaderSeesCompleteSetOrNoDir ==
  \A db \in DBs :
     IF disk[db].live.exists
     THEN disk[db].live.files \in {oldSet[db], newSet[db]}
     ELSE /\ disk[db].old = Dir(oldSet[db])
          /\ disk[db].new = Dir(newSet[db])

\* C7 witness: the imagesets rewrite stands between its two renames, with a
\* new set that differs from the old one
C7_Witness ==
  /\ pc = "rw_rename2"
  /\ rwDb = "imagesets"
  /\ ~disk.imagesets.live.exists
  /\ oldSet.imagesets # newSet.imagesets
  /\ Cardinality(newSet.imagesets) > 1

\* C8: at every step of rewrite(), and after a kill at any step, the complete
\* old set or the complete new set is on disk under the live name or one of
\* the siblings; and files of .old are deleted only while the new set stands
\* under the live name.
C8_NoDataLoss ==
  /\ [](\A db \in DBs :
          \E d \in {disk[db].live, disk[db].new, disk[db].old} :
              d.exists /\ d.files \in {oldSet[db], newSet[db]})
  /\ [][\A db \in DBs :
          (\E f \in disk[db].old.files : f \notin disk'[db].old.files)
             => (disk[db].live.exists /\ disk[db].live.files = newSet[db])]_vars

\* C8 witness: a process was killed while it deleted .old, part of which is
\* gone
C8_Witness ==
  /\ pc = "idle"
  /\ killPoint = "rw_rmtree"
  /\ disk.imagesets.old.exists
  /\ disk.imagesets.old.files # oldSet.imagesets
  /\ disk.imagesets.old.files # {}

\* C9 (as stated): after a kill inside rewrite(), the next run of the command
\* (load, then rewrite) ends successfully with the complete record set under
\* the live name.
C9_RewriteResumable ==
  (pc = "idle" /\ outcome # "none"
     /\ killPoint \in {"rw_write", "rw_rename2", "rw_rmtree"})
  => /\ outcome = "ok"
     /\ \A db \in DBs : disk[db].live = Dir(newSet[db])

\* C10 (as stated): loading the directory that rewrite() wrote yields the
\* record set that was written.
C10_RewriteLoadRoundTrip ==
  (freshLoad /\ kills = 0 /\ disk.imagesets = [live |-> Dir(newSet.imagesets), new |-> NoDir, old |-> NoDir])
  => by_url = RecordsIn(disk.imagesets.live.files)

C12_DuplicateUrlKeepsStored ==
  /\ [](\A r, s \in by_url : r.url = s.url => r = s)
  /\ [][(/\ pc = "main" /\ pc' = "main" /\ cmd = "ingest" /\ lastAdd'.made
         /\ \E r \in by_url : r.url = lastAdd'.arg.url)
        => /\ by_url' = by_url
           /\ by_alturl' = by_alturl
           /\ lastAdd'.ret \in by_url
           /\ lastAdd'.ret.url = lastAdd'.arg.url
           /\ Cardinality({r \in by_url' : r.url = lastAdd'.arg.url}) = 1]_vars

\* a record was offered under a stored url with another alt_url, and the
\* stored one came back
C12_Witness ==
  /\ pc = "main" /\ cmd = "ingest" /\ lastAdd.made
  /\ lastAdd.ret.url = lastAdd.arg.url
  /\ lastAdd.ret # lastAdd.arg
  /\ lastAdd.ret \in by_url

\* C13: when a record A with url X and alt_url Y is stored and Y is no key of
\* by_url, add_imageset of a record with url Y returns A, stores nothing and
\* leaves by_url and the alias index as they were
C13_AliasResolvesToOwner ==
  [][(/\ pc = "main" /\ pc' = "main" /\ cmd = "ingest" /\ lastAdd'.made
      /\ ~ \E r \in by_url : r.url = lastAdd'.arg.url)
     => \A A \in by_url :
          A.alt_url = lastAdd'.arg.url
            => /\ lastAdd'.ret = A
               /\ by_url' = by_url
               /\ by_alturl' = by_alturl]_vars

\* C14: every url keys exactly one stored record, and no stored record's
\* alt_url is the url or the alt_url of another stored record
C14_ImageKeyInvariant ==
  \A r, s \in by_url :
    r # s => /\ r.url # s.url
             /\ r.alt_url # 0 => (r.alt_url # s.url /\ r.alt_url # s.alt_url)

\* C15: add_imageset of a record with a new url and an alt_url stores the
\* record under its url, and afterwards the alias index maps the alt_url to
\* the new record's url, whether another url had claimed it or none had
C15_AliasConflictKeepsNewer ==
  [][(/\ pc = "main" /\ pc' = "main" /\ cmd = "ingest" /\ lastAdd'.made
      /\ ~ \E r \in by_url : r.url = lastAdd'.arg.url
      /\ AltGet(by_alturl, lastAdd'.arg.url) = 0
      /\ lastAdd'.arg.alt_url # 0)
     => /\ lastAdd'.arg \in by_url'
        /\ AltGet(by_alturl', lastAdd'.arg.alt_url) = lastAdd'.arg.url]_vars

\* C16: once rewrite() has put the new directory in place, every record in
\* memory is in exactly one shard file, once, and that file is named by the
\* record's key (images: data set type, the reference frame unless unset or
\* Sky, the band pass unless unset; places: data set type and the hour of
\* right ascension in two digits, or the longitude rounded down to a
\* multiple of ten in three; lowercased, joined by "_"); no file is empty
\* and no file holds a record that memory does not
C16_CanonicalPartition ==
  (pc = "rw_rmtree") =>
    LET files == disk[rwDb].live.files
        mem == IF rwDb = "imagesets" THEN by_url
               ELSE {by_uuid[i] : i \in 1..Len(by_uuid)}
        imgkey(r) ==
          JoinLower(<<r.data_set_type>>
                    \o (IF r.reference_frame \in {"None", "Sky"} THEN <<>>
                        ELSE <<r.reference_frame>>)
                    \o (IF r.band_pass = "None" THEN <<>> ELSE <<r.band_pass>>)) \o ".xml"
        bucket(i) ==
          IF "ra_hr" \in i.keys
          THEN "ra" \o (IF i.ra_hr % 24 < 10 THEN "0" ELSE "") \o ToString(i.ra_hr % 24)
          ELSE LET d == i.longitude - (i.longitude % 10) IN
               IF d < 0 THEN "lon-" \o (IF 0 - d < 10 THEN "0" ELSE "") \o ToString(0 - d)
               ELSE "lon" \o (IF d < 10 THEN "00" ELSE IF d < 100 THEN "0" ELSE "")
                          \o ToString(d)
        plkey(i) == JoinLower(<<i.data_set_type, bucket(i)>>) \o ".yml"
        name(r) == IF rwDb = "imagesets" THEN imgkey(r) ELSE plkey(r)
        holds(f, r) == \E n \in 1..Len(f.recs) : f.recs[n] = r
    IN /\ \A r \in mem :
            /\ Cardinality({f \in files : holds(f, r)}) = 1
            /\ \A f \in files : holds(f, r) =>
                  /\ f.name = name(r)
                  /\ Cardinality({n \in 1..Len(f.recs) : f.recs[n] = r}) = 1
       /\ \A f \in files :
            /\ Len(f.recs) > 0
            /\ \A n \in 1..Len(f.recs) : f.recs[n] \in mem

\* three places in two shards (one of them a planet's, at a negative
\* longitude) have been written and swapped in, after two image shards
C16_Witness ==
  /\ pc = "rw_rmtree" /\ rwDb = "places"
  /\ Len(by_uuid) = 3
  /\ \E f \in disk.places.live.files : f.name = "planet_lon-30.yml"
  /\ \E f \in disk.places.live.files : Len(f.recs) = 2
  /\ \E f \in disk.imagesets.live.files : f.name = "planet_mars.xml"
  /\ \E f \in disk.imagesets.live.files : f.name = "sky_visible.xml"

\* C17: reconst_by_id of a place one of whose three image references is
\* not a url of the image database ends with the dangling-reference
\* exception that names the place and the URL: it neither returns a place
\* nor ends with the KeyError of the lookup
C17_DanglingReferenceNamed ==
  [][(/\ pc = "reconst"
      /\ \E u \in {by_uuid[1].image_set_url, by_uuid[1].foreground_image_set_url,
                    by_uuid[1].background_image_set_url} :
           u # 0 /\ ~ \E r \in by_url : r.url = u)
     => (pc' = "idle" => outcome' = "Exception: FG imageset URL not found in place")]_vars

\* C18: every item the working directory knows is held by exactly one
\* stage (candidates, rejects, cache_todo, cache_done with processed,
\* uploaded), and a step that changes the directories holding an item
\* either makes its first entry or moves one entry to another directory
C18_SingleStagePerItem ==
  /\ [](\A i \in Items :
          work[i] # {} =>
            Cardinality({IF x = "processed" THEN "cache_done" ELSE x : x \in work[i]}) = 1)
  /\ [][\A i \in Items :
         work'[i] # work[i] =>
           \/ work[i] = {} /\ Cardinality(work'[i]) = 1
           \/ /\ Cardinality(work[i] \ work'[i]) = 1
              /\ Cardinality(work'[i] \ work[i]) = 1]_vars

\* C19: when a run of process_todos has ended normally, whatever runs and
\* kills came before it, every item that has been processed (its cache
\* directory is in cache_done/) and is not in uploaded/ has a record in
\* prep.txt
C19_ProcessedItemsInPrep ==
  (pc = "idle" /\ cmd = "process_todos" /\ outcome = "ok") =>
    \A i \in Items :
      ("cache_done" \in work[i] /\ "uploaded" \notin work[i])
        => \E k \in 1..Len(prep) : prep[k].corepipe_id = i

\* C20: a refresh leaves a descriptor in candidates/ for every candidate of
\* the source that no image record cross-references, that has no
\* index.wtml and no skip.flag in remote storage and whose save does not
\* signal not-actionable; it writes none for any other candidate; and a
\* candidate excluded by the first three tests changes no stage directory
C20_RefreshFilter ==
  [][(pc = "idle" /\ pc' = "idle" /\ cmd' = "refresh") =>
       \A n \in 1..Len(source.feed) :
         LET i == source.feed[n]
             excluded ==
               \/ \E r \in RecordsIn(disk.imagesets.live.files) : r.corepipe_ids = i
               \/ "index.wtml" \in remote[i]
               \/ "skip.flag" \in remote[i]
         IN /\ (~excluded /\ i \notin source.bad) => "candidates" \in work'[i]
            /\ (~excluded /\ i \in source.bad) => "candidates" \notin work'[i]
            /\ excluded => work'[i] = work[i]]_vars

\* C21: a refresh in which the save of a candidate signals not-actionable
\* leaves that candidate in rejects/ and not in candidates/, ends normally,
\* and has written the descriptor of every actionable candidate that passes
\* the skip tests, those after the rejected one included
C21_RefreshQuarantine ==
  [][(/\ pc = "idle" /\ pc' = "idle" /\ cmd' = "refresh"
      /\ \E n \in 1..Len(source.feed) : source.feed[n] \in source.bad)
     => \A n \in 1..Len(source.feed) :
          LET i == source.feed[n]
              excluded ==
                \/ \E r \in RecordsIn(disk.imagesets.live.files) : r.corepipe_ids = i
                \/ "index.wtml" \in remote[i]
                \/ "skip.flag" \in remote[i]
          IN ~excluded =>
               /\ outcome' = "ok"
               /\ IF i \in source.bad
                  THEN "rejects" \in work'[i] /\ "candidates" \notin work'[i]
                  ELSE "candidates" \in work'[i]]_vars

\* C22: a fetch in which the source reports the candidate not actionable
\* (its descriptor leaves candidates/) ends with the descriptor in rejects/
\* and with no cache_todo/<id>, and the command goes on: it does not end
\* with an exception
C22_FetchRollback ==
  [][(pc = "idle" /\ pc' = "idle" /\ cmd' = "fetch") =>
       \A i \in Items :
         ("candidates" \in work[i] /\ "candidates" \notin work'[i])
           => /\ "rejects" \in work'[i]
              /\ "cache_todo" \notin work'[i]
              /\ outcome' = "ok"]_vars

\* C23: a run of process_todos that finds nothing staged in cache_todo/
\* ends normally and leaves prep.txt, the stage directories and the remote
\* storage as they were
C23_NoTodosNoChange ==
  [][(/\ cmd' = "process_todos" /\ pc' = "idle" /\ kills' = kills
      /\ \A i \in Items : "cache_todo" \notin work[i]
      /\ pc = "idle" \/ (pc = "pt_item" /\ filenames = <<>>))
     => /\ outcome' = "ok"
        /\ prep' = prep
        /\ work' = work
        /\ itemFiles' = itemFiles
        /\ remote' = remote]_vars

\* C24: with astropix_publisher_id set and the registry file missing, a run
\* of process_todos does not fail, and when it has ended every item that
\* was staged in cache_todo/ is in cache_done/
C24_MissingRegistryTolerated ==
  [][(/\ source.astropix = "missing" /\ pc = "idle" /\ cmd' = "process_todos"
      /\ \E i \in Items : "cache_todo" \in work[i])
     => /\ outcome' \in {"none", "ok"}
        /\ pc' = "idle" =>
             \A i \in Items : "cache_todo" \in work[i] => "cache_done" \in work'[i]]_vars

\* C25: an ignore_rejects that ends normally leaves a skip.flag in remote
\* storage for every item in rejects/; a skip.flag is never removed; and a
\* refresh changes no directory of an item that has one, so it writes no
\* descriptor for it
C25_PermanentIgnore ==
  /\ [][(pc = "idle" /\ pc' = "idle" /\ cmd' = "ignore_rejects" /\ outcome' = "ok")
         => \A i \in Items : "rejects" \in work[i] => "skip.flag" \in remote'[i]]_vars
  /\ [][\A i \in Items :
         "skip.flag" \in remote[i]
           => /\ "skip.flag" \in remote'[i]
              /\ (pc = "idle" /\ pc' = "idle" /\ cmd' = "refresh") => work'[i] = work[i]]_vars

\* a refresh has run over a source that offers an actionable candidate
\* which fetch had rejected and ignore_rejects had flagged, and
\* candidates/ does not hold it
C25_Witness ==
  /\ pc = "idle" /\ cmd = "refresh" /\ outcome = "ok"
  /\ \E i \in Items :
       /\ "rejects" \in work[i] /\ "candidates" \notin work[i]
       /\ remote[i] = {"skip.flag"}
       /\ i \notin source.bad
       /\ \E n \in 1..Len(source.feed) : source.feed[n] = i
       /\ \A r \in RecordsIn(disk.imagesets.live.files) : r.corepipe_ids # i

\* C26: register() makes no remote call for an item marked wip and keeps
\* it; the wip items of every ledger file stay what they were, in their
\* order; when a register-cxprep run has ended normally its ledger holds wip
\* items only, and a run over such a ledger makes no remote call
C26_WipKeptAndSecondRunIdle ==
  /\ [][(pc = "reg_item" /\ idx <= Len(cur_items) /\ cur_items[idx].wip /\ kills' = kills)
        => /\ regCalls' = regCalls /\ attempt' = attempt /\ exhausted' = exhausted
           /\ new_items' = Append(new_items, cur_items[idx])]_vars
  /\ [][\A h \in Handles :
         SelectSeq(cxprep'[h], LAMBDA x : x.wip) = SelectSeq(cxprep[h], LAMBDA x : x.wip)]_vars
  /\ []((pc = "idle" /\ cmd = "register" /\ outcome = "ok")
          => \A h \in Handles : \A k \in 1..Len(cxprep[h]) : cxprep[h][k].wip)
  /\ [][(cmd' = "register" /\ \A h \in Handles : \A k \in 1..Len(cxprep[h]) : cxprep[h][k].wip)
        => regCalls' = regCalls /\ attempt' = 0 /\ exhausted' \subseteq exhausted]_vars

\* a second run, started after the first had registered image 2 and
\* rewritten the ledger, has gone through the two wip items the ledger holds
C26_Witness ==
  /\ cmd = "register" /\ runs = 2 /\ kills = 0
  /\ pc = "reg_item" /\ idx = 3
  /\ \E h \in Handles :
       /\ Len(cxprep[h]) = 2
       /\ \A k \in 1..2 : cxprep[h][k].wip
       /\ new_items = cxprep[h]
  /\ regCalls.image[2] = 1

\* C27: when a register-cxprep process has ended, in whatever way, every
\* image it registered remotely is marked in:<id> in the image database on
\* disk, and no image is registered remotely a second time
C27_RegisteredImagesStamped ==
  /\ \A u \in Urls :
       (pc = "idle" /\ regCalls.image[u] > 0)
         => \E r \in RecordsIn(disk.imagesets.live.files) :
              r.url = u /\ r.cxstatus.tag = "in"
  /\ \A u \in Urls : regCalls.image[u] <= 1

\* C28: at a ready scene item whose image has no known remote id,
\* register() goes on to the next item without a remote call and keeps the
\* item for its handle's queue, so that the rewritten ledger still holds it
C28_UnresolvedSceneKept ==
  [][(/\ pc = "reg_item" /\ idx <= Len(cur_items) /\ kills' = kills
      /\ ~cur_items[idx].wip /\ cur_items[idx].kind = "scene"
      /\ ImgIdGet(imgids_by_url, cur_items[idx].url) = NoneId)
     => /\ pc' = "reg_item"
        /\ regCalls' = regCalls
        /\ new_items' = Append(new_items, cur_items[idx])]_vars

\* what a run of update() appended to the queue of handle h
Appended(h) == SubSeq(by_handle'[h], Len(cxprep[h]) + 1, Len(by_handle'[h]))

\* the image items among what update() appended to the queue of handle h
AppendedImages(h) == SelectSeq(Appended(h), LAMBDA e : e.kind = "image")

\* update() returned: the step from the idle state that leaves the filled
\* queues in memory
UpdateReturned == pc = "idle" /\ pc' = "upd_prep" /\ raised' = "none"

\* C29 as stated: update() appends exactly one image item, with placeholder
\* copyright and license and a wip marker, to the queue of H for every
\* catalog image with status queue:H that no queue holds yet, whatever the
\* data set type of the image; no image item for any other record; and a
\* second update() over the unchanged catalog appends nothing
C29_AnyTypeQueued ==
  [][UpdateReturned =>
       /\ \A h \in UpdHandles :
            /\ Len(by_handle'[h]) >= Len(cxprep[h])
            /\ SubSeq(by_handle'[h], 1, Len(cxprep[h])) = cxprep[h]
            /\ \A r \in by_url' :
                 LET owed == /\ r.cxstatus.tag = "queue"
                             /\ HandleOf(r.cxstatus) = h
                             /\ \A e \in QueueItems(cxprep) : e.kind = "image" => e.url # r.url
                     got == SelectSeq(AppendedImages(h), LAMBDA e : e.url = r.url)
                 IN IF owed THEN got = <<ImageItem(r.url)>> ELSE got = <<>>
            /\ \A k \in 1..Len(AppendedImages(h)) :
                 \E r \in by_url' : r.url = AppendedImages(h)[k].url
       /\ (outcome = "ok" => by_handle' = cxprep)
  ]_vars

\* C29, amended: update() appends exactly one image item, with placeholder
\* copyright and license and a wip marker, to the queue of H for every
\* catalog image of data set type Sky with status queue:H that no queue
\* holds yet; it appends no image item for any other record (an image of
\* another data set type included); and a second update() over the
\* unchanged catalog appends nothing
C29_SkyQueued ==
  [][UpdateReturned =>
       /\ \A h \in UpdHandles :
            /\ Len(by_handle'[h]) >= Len(cxprep[h])
            /\ SubSeq(by_handle'[h], 1, Len(cxprep[h])) = cxprep[h]
            /\ \A r \in by_url' :
                 LET owed == /\ r.data_set_type = "Sky"
                             /\ r.cxstatus.tag = "queue"
                             /\ HandleOf(r.cxstatus) = h
                             /\ \A e \in QueueItems(cxprep) : e.kind = "image" => e.url # r.url
                     got == SelectSeq(AppendedImages(h), LAMBDA e : e.url = r.url)
                 IN IF owed THEN got = <<ImageItem(r.url)>> ELSE got = <<>>
            /\ \A k \in 1..Len(AppendedImages(h)) :
                 \E r \in by_url' : r.url = AppendedImages(h)[k].url
       /\ (outcome = "ok" => by_handle' = cxprep)
  ]_vars

\* a second update() has returned with nothing to add: the first one queued
\* the Sky image 2, and the queued planetary image 3 is in no queue
C29_Witness ==
  /\ pc = "upd_prep" /\ raised = "none" /\ runs = 2
  /\ by_handle = cxprep
  /\ \E h \in UpdHandles : \E k \in 1..Len(cxprep[h]) : cxprep[h][k] = ImageItem(2)
  /\ WithStatus(3, [tag |-> "queue", val |-> 1]) \in by_url
  /\ \A e \in QueueItems(cxprep) : e.url # 3

\* the place references the image of url u through one of its three fields
References(pinfo, u) == \E k \in 1..3 : RefUrls(pinfo)[k] = u

\* C30: for each image queued by update(), every place that references it
\* through any of its three image fields and is not already done is emitted
\* as a scene item in the same queue, after the item of its image and before
\* the next image item, whatever the statuses of the other images are
\* (stated for the places that reference one queued image only; a place that
\* references two is the ambiguity case)
C30_ScenesFollowTheirImage ==
  [][UpdateReturned =>
       \A h \in UpdHandles :
         \A k \in Len(cxprep[h]) + 1 .. Len(by_handle'[h]) :
           by_handle'[h][k].kind = "image" =>
             \A j \in 1..Len(by_uuid') :
               LET pinfo == by_uuid'[j]
                   u == by_handle'[h][k].url
                   queued == {e.url : e \in {x \in QueueItems(by_handle') \ QueueItems(cxprep) :
                                               x.kind = "image"}}
               IN (/\ References(pinfo, u)
                   /\ \A v \in queued : References(pinfo, v) => v = u
                   /\ pinfo.uuid \notin DonePlaceUuids(by_uuid', cxprep))
                  => \E m \in k + 1 .. Len(by_handle'[h]) :
                       /\ by_handle'[h][m] = SceneItem(pinfo.uuid, u)
                       /\ \A n \in k + 1 .. m : by_handle'[h][n].kind = "scene"
  ]_vars

\* the scene items for the place of uuid pid among what update() appended
\* to the queue of handle h
AppendedScenes(h, pid) ==
  SelectSeq(Appended(h), LAMBDA e : e.kind = "scene" /\ e.place_uuid = pid)

\* C31: when two images are queued by update() under the two handles and
\* one place references both, update() does not fail and emits a scene item
\* for the place exactly once over all queues, in the queue of the handle
\* met first, the one of the image named by the first of the place's image
\* fields (the warning is printed only and leaves no trace in the state)
C31_AmbiguousPlaceOnceUnderFirstHandle ==
  [][(pc = "idle" /\ pc' = "upd_prep") =>
       \A j \in 1..Len(by_uuid') : \A a, b \in by_url' :
         LET pinfo == by_uuid'[j]
             todoNow(r) == /\ r.data_set_type = "Sky"
                           /\ r.cxstatus.tag = "queue"
                           /\ \A e \in QueueItems(cxprep) : e.kind = "image" => e.url # r.url
         IN (/\ todoNow(a) /\ todoNow(b)
             /\ HandleOf(a.cxstatus) # HandleOf(b.cxstatus)
             /\ pinfo.image_set_url = a.url
             /\ pinfo.foreground_image_set_url = b.url)
            => /\ raised' = "none"
               /\ AppendedScenes(HandleOf(a.cxstatus), pinfo.uuid) = <<SceneItem(pinfo.uuid, a.url)>>
               /\ AppendedScenes(HandleOf(b.cxstatus), pinfo.uuid) = <<>>
  ]_vars

\* C32: for any item kind and any ordered field map, long text and credits
\* values wrapped over several lines and values with words ending in ":" or
\* ">" included, what _emit_record writes is parsed back by
\* _parse_record_file without error into exactly one item with the same
\* kind, the same keys in the same order and the same words in every value
C32_LedgerRoundTrip ==
  [][(pc = "led_mem" /\ pc' = "idle" /\ Len(by_handle["h1"]) = 1) =>
       LET back == ParseRecordFile(cxprep'["h1"], LedgerPath)
       IN /\ back.err = "none"
          /\ Len(back.items) = 1
          /\ back.items[1].kind = by_handle["h1"][1].kind
          /\ back.items[1].fields = by_handle["h1"][1].fields
  ]_vars

\* the file ends without a terminating "---" after a record was started:
\* its last line that is not blank is no separator
Unterminated(f) ==
  \E i \in 1..Len(f) :
    /\ f[i] # Blank /\ f[i] # SepLine
    /\ \A j \in i + 1 .. Len(f) : f[j] = Blank

\* the file holds a line of no known shape: it starts with a plain word and
\* no "key>" line above it opens a field it could continue
Malformed(f) ==
  \E i \in 1..Len(f) :
    /\ f[i] # Blank /\ f[i][1].e = "plain"
    /\ \A j \in 1 .. i - 1 : f[j] = Blank \/ f[j][1].e # "gt"

\* C33: whenever the file ends without a terminating "---" after a record
\* was started, or holds a line of no known shape, _parse_record_file ends
\* in a fatal error that reports the file and the line number, and the
\* caller gets no record of it
C33_ParseErrorsReportFileAndLine ==
  [][(pc = "idle" /\ cmd' = "update_cxprep" /\ runs' # runs
       /\ (Unterminated(cxprep["h1"]) \/ Malformed(cxprep["h1"]))) =>
       /\ pc' = "idle"
       /\ by_handle' = by_handle
       /\ \E n \in 1..Len(cxprep["h1"]) :
            outcome' \in {ExpectedAt(n, LedgerPath), ExpectedIndicator(n, LedgerPath)}
  ]_vars

\* C34: _retry invokes the operation at most RetryLimit times; the result of
\* the first attempt that raises no connection error is returned and nothing
\* is invoked after it; the same delay follows every failed attempt; only a
\* connection error is retried, any other exception leaves from the attempt
\* that raised it; and the loop always ends
C34_RetryBounded ==
  /\ [](attempt \in 0 .. RetryLimit - 1)
  /\ [](\A att \in 0 .. RetryLimit - 1 : \A res \in CallResults :
          LET r == RetryStep(att, res) IN
          /\ res = "ok" => r.done /\ ~r.none /\ r.raises = "none" /\ r.sleep = 0
          /\ res = "ConnectionError" =>
               /\ r.sleep = RetryDelay /\ r.raises = "none" /\ r.attempt = att + 1
               /\ r.done <=> att + 1 = RetryLimit
          /\ res \notin {"ok", "ConnectionError"} => r.done /\ r.raises = res /\ r.sleep = 0)
  /\ [][/\ attempt' > attempt =>
             attempt' = attempt + 1 /\ regCalls' = regCalls /\ idx' = idx /\ pc' = pc
        /\ regCalls' # regCalls =>
             /\ attempt' = 0 /\ idx' = idx + 1 /\ exhausted' = exhausted
             /\ cur_items[idx].kind = "image" =>
                  ImgIdGet(imgids_by_url', cur_items[idx].url) = RemoteId(cur_items[idx].url)
        /\ outcome' = "HTTPError" =>
             pc' = "idle" /\ regCalls' = regCalls /\ exhausted' = exhausted
       ]_vars
  /\ ((pc = "reg_item" /\ attempt > 0) ~> (attempt = 0))

\* four attempts of one _retry have failed and the fifth is about to be made
C34_Witness == pc = "reg_item" /\ attempt = RetryLimit - 1

\* C35: when upload() reaches an item whose directory uploaded/<id> exists,
\* it makes no put_item call for it, leaves its index documents as they
\* are and goes straight to the registration of the image; an item without
\* the directory has all the files of processed/<id> pushed before it is
\* renamed or registered
C35_ResumptionPoint ==
  [][/\ (pc = "up_loop" /\ cur <= Len(items) /\ pc' # "idle") =>
          LET id == items[cur].corepipe_id IN
          IF items[cur].wip THEN pc' = "up_loop"
          ELSE IF stage[id] = "uploaded"
          THEN pc' = "up_regimg" /\ itemFiles' = itemFiles /\ remote' = remote
          ELSE pc' = "up_put" /\ fidx' = 1 /\ remote' = remote
                 /\ {filenames'[k] : k \in 1..Len(filenames')} = itemFiles'[id]
     /\ \A id \in Items :
          /\ (remote'[id] # remote[id] \/ indexPuts'[id] # indexPuts[id]
                \/ itemFiles'[id] # itemFiles[id]) => stage[id] # "uploaded"
          /\ (stage'[id] = "uploaded" /\ stage[id] # "uploaded") => itemFiles[id] \subseteq remote[id]
          /\ imgRegs'[id] # imgRegs[id] => stage[id] = "uploaded" /\ itemFiles[id] \subseteq remote[id]
    ]_vars

\* a second run has found uploaded/<id> and stands at the registration of
\* the image, having pushed nothing
C35_Witness ==
  /\ pc = "up_regimg" /\ runs = 2 /\ lastOp = "none" /\ attempt = 0
  /\ stage[items[cur].corepipe_id] = "uploaded"
  /\ indexPuts[items[cur].corepipe_id] = 1

\* the item has gone through every step in the running upload(): its data
\* is in uploaded/, image and scene are registered, and both databases in
\* memory hold its records
CompletedInRun(i) ==
  /\ stage[i] = "uploaded" /\ imgRegs[i] > 0 /\ sceneRegs[i] > 0
  /\ \E r \in by_url : r.corepipe_ids = i
  /\ \E k \in 1..Len(by_uuid) : by_uuid[k].uuid = ItemUuid(i)

QueuedNow == {e \in QueueItems(by_handle') \ QueueItems(cxprep) : e.kind = "image"}

\* the scene items update() appended, over all queues
ScenesNow ==
  UNION {{Appended(h)[k] : k \in {j \in 1..Len(Appended(h)) : Appended(h)[j].kind = "scene"}} :
           h \in UpdHandles}

\* C37: update() emits no scene item for a place that is already done (its
\* status is in:<id>, or a scene item of some queue names it), and whether
\* a place is passed over depends on its own status only: a place that is
\* not done and references an image queued now gets its scene item,
\* whatever status the image record visited last carries
C37_DonePlacesNotRequeued ==
  [][UpdateReturned =>
       /\ \A e \in ScenesNow : e.place_uuid \notin DonePlaceUuids(by_uuid', cxprep)
       /\ \A j \in 1..Len(by_uuid') :
            (/\ by_uuid'[j].uuid \notin DonePlaceUuids(by_uuid', cxprep)
             /\ \E e \in QueuedNow : References(by_uuid'[j], e.url))
            => \E e \in ScenesNow : e.place_uuid = by_uuid'[j].uuid
  ]_vars

\* C38: PlaceDatabase.rewrite orders the records of a shard by the key
\* (URLs of the referenced images, coordinates, name), and the order is
\* defined for every set of well-formed places, a shard that mixes places
\* with and without image references included: the sort raises nothing and
\* every file written is in key order
C38_ShardOrderDefined ==
  /\ outcome # "TypeError"
  /\ \A d \in {"live", "new", "old"} : \A f \in disk.places[d].files :
       \A k \in 1 .. Len(f.recs) - 1 :
         TupleCompare(PlaceSortKey(f.recs[k]), PlaceSortKey(f.recs[k + 1])) \in {"lt", "eq"}

\* C39: after every add_imageset call (those of the load from disk and those
\* of do_ingest) every alias of by_alturl maps to a url that keys by_url,
\* every url keys one record and that record carries it, and a call leaves
\* every record that was stored where it was, unchanged
C39_AliasIndexConsistent ==
  /\ [](/\ \A a \in by_alturl : HasUrl(by_url, a[2])
        /\ \A r \in by_url : GetByUrl(by_url, r.url) = r)
  /\ [][(pc = "main" /\ pc' = "main" /\ cmd = "ingest" /\ lastAdd'.made)
        => /\ by_url \subseteq by_url'
           /\ by_alturl \subseteq by_alturl'
           /\ \A r \in by_url : GetByUrl(by_url', r.url) = r]_vars

\* an alias is registered, and the call made last offered a record that
\* differs from the one stored under its url, or one whose alt_url another
\* url had claimed
C39_Witness ==
  /\ pc = "main" /\ cmd = "ingest" /\ lastAdd.made
  /\ by_alturl # {}
  /\ Cardinality(by_url) >= 2
  /\ \/ (lastAdd.ret # lastAdd.arg /\ lastAdd.ret.url = lastAdd.arg.url)
     \/ (lastAdd.ret = lastAdd.arg /\ lastAdd.arg.alt_url # 0
         /\ AltGet(by_alturl, lastAdd.arg.alt_url) # lastAdd.arg.url)

\* the places the running ingest has added to those it loaded
Ingested == {k \in 1 .. Len(by_uuid) : by_uuid[k].uuid >= 100}

\* the image urls a place info dict carries
ImageUrlsOf(info) ==
  {info.image_set_url, info.foreground_image_set_url,
   info.background_image_set_url} \ {0}

\* C40: while an ingest adds image sets and places, every image url in the
\* info dict of a place it has added is a key of by_url, so reconst_by_id of
\* that place resolves all its references
C40_IngestedReferencesResolve ==
  (pc = "main" /\ cmd = "ingest")
    => \A k \in Ingested :
         /\ \A u \in ImageUrlsOf(by_uuid[k]) : HasUrl(by_url, u)
         /\ ReconstById(by_uuid[k], by_url).err = "ok"

\* a place was added whose image set was offered under an alias of a stored
\* record and whose foreground was a duplicate of a stored url, and image
\* sets were added after it
C40_Witness ==
  /\ pc = "main" /\ cmd = "ingest" /\ lastAdd.made
  /\ \E k \in Ingested :
       /\ by_uuid[k].image_set_url # 0
       /\ by_uuid[k].foreground_image_set_url # 0
       /\ by_uuid[k].foreground_image_set_url # by_uuid[k].image_set_url
       /\ AltGet(by_alturl, AliasUrl) = by_uuid[k].image_set_url
       /\ ~ HasUrl(by_url, AliasUrl)
  /\ Cardinality(Ingested) = MaxPlaces

====
